---- MODULE Spec2Model ----
(***************************************************************************)
(* A model of BatteryPy (src/batterypy/_batterypy.py): the aggregate       *)
(* collector get_result() of the abstract base class _BatteryPy with its   *)
(* result cache, its sequential and its thread-pool collection and its     *)
(* formatting step, the concrete metric getters of the Windows and the     *)
(* Linux Battery classes as functions of the raw readings, the battery     *)
(* probe and the constructors, the battery report of the Windows class     *)
(* with its cache file, clear_cache and the voltage estimate with its      *)
(* memo, and the live-state reader of the Windows class entered by several *)
(* threads.                                                                *)
(*                                                                         *)
(* Time is counted in whole seconds.  A Python float is a fixed-point      *)
(* number of millionths (11.5 V is 11500000); None, int, bool, str and     *)
(* float values are records tagged with their type.                        *)
(***************************************************************************)
EXTENDS Integers, Sequences, FiniteSets, TLC

(***************************************************************************)
(* Bounds of the model.                                                    *)
(***************************************************************************)
MaxTime == 2        \* no get_result call starts after this time
MaxSupplies == 2    \* the entries of /sys/class/power_supply
MaxSmall == 5       \* the raw integers around zero given to the formatting helpers

(***************************************************************************)
(* Program constants.                                                      *)
(***************************************************************************)
_cache_ttl == 1            \* self._cache_ttl = 1.0
_timeout == 2              \* timeout: float = 2.0
max_workers == 4           \* ThreadPoolExecutor(max_workers=4)
_fast_charge_rate == 20000 \* _fast_charge_rate: int = 20000
_CACHE_DURATION_SECONDS == 2
PerTaskTimeout == 1        \* future.result(timeout=1.0)
Micro == 1000 * 1000       \* fixed-point scale of a float
SecondsPerDay == 24 * 60 * 60

(***************************************************************************)
(* Raw values as the getters return them.                                  *)
(***************************************************************************)
NoneV == [t |-> "none", n |-> 0, s |-> ""]
IntV(i) == [t |-> "int", n |-> i, s |-> ""]
FloatV(u) == [t |-> "float", n |-> u, s |-> ""]
BoolV(b) == [t |-> "bool", n |-> IF b THEN 1 ELSE 0, s |-> ""]
StrV(x) == [t |-> "str", n |-> 0, s |-> x]
\* an int too large for float(): float(10**400) raises OverflowError
HugeV == [t |-> "huge", n |-> 0, s |-> ""]

\* the twelve tasks of get_result, in the order of the tasks dict
TaskKeys ==
    << "battery_percent", "is_plugged", "design_capacity", "remaining_capacity",
       "charge_rate", "is_fast_charge", "manufacturer", "battery_technology",
       "cycle_count", "battery_health", "battery_voltage", "battery_temperature" >>

Keys == { TaskKeys[i] : i \in 1..Len(TaskKeys) }

\* the keys of the mapping _format_result_data builds
ResultKeys ==
    { "battery_percent", "power_status", "design_capacity", "remaining_capacity",
      "charge_rate", "fast_charge", "manufacturer", "technology", "cycle_count",
      "battery_health", "battery_voltage", "battery_temperature", "report_generated" }

\* the keys of the mapping _get_fallback_result builds
FallbackKeys ==
    { "battery_percentage", "power_status", "design_capacity", "remaining_capacity",
      "charge_rate", "fast_charge", "manufacturer", "technology", "cycle_count",
      "battery_health", "battery_voltage", "battery_temperature", "report_generated" }

(***************************************************************************)
(* Number formatting of Python's format mini-language.                     *)
(***************************************************************************)
Abs(i) == IF i < 0 THEN 0 - i ELSE i

Pad3(n) ==
    IF n < 10 THEN "00" \o ToString(n)
    ELSE IF n < 100 THEN "0" \o ToString(n) ELSE ToString(n)

RECURSIVE Commas(_)
\* "{:,}" of a non-negative integer
Commas(n) ==
    IF n < 1000 THEN ToString(n)
    ELSE Commas(n \div 1000) \o "," \o Pad3(n % 1000)

\* round a non-negative number of 1/unit to the nearest integer, ties to even
RoundDiv(a, unit) ==
    LET q == a \div unit
        r == a % unit
    IN  IF 2 * r > unit \/ (2 * r = unit /\ q % 2 = 1) THEN q + 1 ELSE q

\* the digits of d decimals, left-padded with zeros
RECURSIVE PadTo(_, _)
PadTo(str, d) == IF Len(str) >= d THEN str ELSE PadTo("0" \o str, d)

Pow10(d) == IF d = 0 THEN 1 ELSE IF d = 1 THEN 10 ELSE 100

\* "{float(v):.<d>f}" for d in 0..2, with thousands separators when sep
Fixed(v, d, sep) ==
    LET scaled == IF v.t = "float" THEN RoundDiv(Abs(v.n), Micro \div Pow10(d))
                  ELSE Abs(v.n) * Pow10(d)
        whole == scaled \div Pow10(d)
        frac == scaled % Pow10(d)
        sign == IF v.n < 0 THEN "-" ELSE ""
    IN  sign \o (IF sep THEN Commas(whole) ELSE ToString(whole))
             \o (IF d = 0 THEN "" ELSE "." \o PadTo(ToString(frac), d))

(***************************************************************************)
(* The formatting helpers of _BatteryPy.  Each is defined on the values    *)
(* for which the Python helper returns; FormatRaises tells the others.     *)
(***************************************************************************)
\* bool(value) of a value that is not None
Truthy(value) == IF value.t = "str" THEN value.s # "" ELSE value.t = "huge" \/ value.n # 0

_format_percentage(percentage) ==
    IF percentage.t = "none" THEN "n/a" ELSE Fixed(percentage, 0, FALSE) \o "%"

_format_power_status(is_plugged) ==
    IF is_plugged.t = "none" THEN "n/a"
    ELSE IF Truthy(is_plugged) THEN "Plugged In" ELSE "On Battery"

_format_capacity(capacity) ==
    IF capacity.t = "none" THEN "n/a" ELSE Fixed(capacity, 0, TRUE) \o " mWh"

_format_charge_rate(rate) ==
    IF rate.t = "none" THEN "n/a"
    ELSE IF rate.n = 0 THEN "0 mW (Idle)"
    ELSE Fixed([rate EXCEPT !.n = Abs(rate.n)], 0, TRUE) \o " mW ("
         \o (IF rate.n > 0 THEN "Charging" ELSE "Discharging") \o ")"

_format_health(health) ==
    IF health.t = "none" THEN "n/a" ELSE Fixed(health, 1, FALSE) \o "%"

_format_voltage(voltage) ==
    IF voltage.t = "none" THEN "n/a" ELSE Fixed(voltage, 2, FALSE) \o " V"

_format_temperature(temperature) ==
    IF temperature.t = "none" THEN "n/a" ELSE Fixed(temperature, 1, FALSE) \o "°C"

_format_boolean(value) ==
    IF value.t = "none" THEN "n/a"
    ELSE IF Truthy(value) THEN "Yes" ELSE "No"

\* str.strip() of the strings the model uses: all blanks, or no outer blanks
Strip(x) == IF x \in {" ", "  "} THEN "" ELSE x

_format_string(value) ==
    IF value.t # "str" \/ value.s = "" THEN "n/a"
    ELSE IF Strip(value.s) = "" THEN "n/a" ELSE Strip(value.s)

_format_integer(value) ==
    IF value.t = "none" THEN "n/a"
    ELSE IF value.t = "float"
         THEN (IF value.n <= 0 - Micro THEN "-" ELSE "") \o ToString(Abs(value.n) \div Micro)
    ELSE ToString(value.n)

\* the tasks whose value goes through float(): float() of a huge int raises
FloatKeys ==
    { "battery_percent", "design_capacity", "remaining_capacity", "charge_rate",
      "cycle_count", "battery_health", "battery_voltage", "battery_temperature" }

FormatRaises(raw_data) == \E k \in FloatKeys : raw_data[k].t = "huge"

\* datetime.now().strftime("%Y-%m-%d"): the day the clock is in
_get_datetime(clock) == "day-" \o ToString(clock \div SecondsPerDay)

_get_fallback_result(clock) ==
    [k \in FallbackKeys |->
        IF k = "report_generated" THEN _get_datetime(clock) ELSE "n/a"]

\* the task whose value the field k of the result shows
TaskOf(k) ==
    CASE k = "power_status" -> "is_plugged"
      [] k = "fast_charge" -> "is_fast_charge"
      [] k = "technology" -> "battery_technology"
      [] OTHER -> k

\* the helper _format_result_data applies for the field k
FormatField(k, raw) ==
    CASE k = "battery_percent" -> _format_percentage(raw)
      [] k = "power_status" -> _format_power_status(raw)
      [] k \in {"design_capacity", "remaining_capacity"} -> _format_capacity(raw)
      [] k = "charge_rate" -> _format_charge_rate(raw)
      [] k = "fast_charge" -> _format_boolean(raw)
      [] k \in {"manufacturer", "technology"} -> _format_string(raw)
      [] k = "cycle_count" -> _format_integer(raw)
      [] k = "battery_health" -> _format_health(raw)
      [] k = "battery_voltage" -> _format_voltage(raw)
      [] OTHER -> _format_temperature(raw)

FormattedData(raw_data, clock) ==
    [k \in ResultKeys |->
        IF k = "report_generated" THEN _get_datetime(clock)
        ELSE FormatField(k, raw_data[TaskOf(k)])]

\* _format_result_data: the formatted mapping, the fallback when a helper raises
_format_result_data(raw_data, clock) ==
    IF FormatRaises(raw_data) THEN _get_fallback_result(clock)
    ELSE FormattedData(raw_data, clock)

(***************************************************************************)
(* The raw readings of the metric sources.                                 *)
(***************************************************************************)
\* a _SYSTEM_BATTERY_STATE as CallNtPowerInformation fills it; the c_ulong
\* fields are never negative
State(ac, present, charging, discharging, max, remaining, rate) ==
    [valid |-> TRUE, AcOnLine |-> ac, BatteryPresent |-> present, Charging |-> charging,
     Discharging |-> discharging, MaxCapacity |-> max, RemainingCapacity |-> remaining,
     Rate |-> rate]

\* None in the place of a state
NoState ==
    [valid |-> FALSE, AcOnLine |-> FALSE, BatteryPresent |-> FALSE, Charging |-> FALSE,
     Discharging |-> FALSE, MaxCapacity |-> 0, RemainingCapacity |-> 0, Rate |-> 0]

\* the states the power API reports: charging, discharging, full and idle, no
\* battery, more left than the maximum, charging fast, maximum unknown, both flags
WinStates ==
    { State(TRUE, TRUE, TRUE, FALSE, 40000, 20000, 12000),
      State(FALSE, TRUE, FALSE, TRUE, 40000, 20000, 8000),
      State(TRUE, TRUE, FALSE, FALSE, 40000, 40000, 0),
      State(TRUE, FALSE, FALSE, FALSE, 0, 0, 0),
      State(TRUE, TRUE, TRUE, FALSE, 40000, 50000, 25000),
      State(FALSE, TRUE, FALSE, TRUE, 0, 0, 8000),
      State(TRUE, TRUE, TRUE, TRUE, 40000, 20000, 12000) }

\* what one CallNtPowerInformation call gives: a state, or a failure
ApiAnswers == WinStates \cup {NoState}

\* a battery report as _SEARCH_PATTERNS sees it: the text of each field that
\* matches, a number standing for the text _extract_numeric_value turns into it
Report(found) == [loaded |-> TRUE, found |-> found]
NoReport == [loaded |-> FALSE, found |-> [q \in {} |-> NoneV]]

Fields(design, full) ==
    [q \in {"manufacturer", "chemistry", "design_capacity", "full_capacity",
            "cycle_count"} |->
        CASE q = "manufacturer" -> StrV("SMP")
          [] q = "chemistry" -> StrV("LIon")
          [] q = "design_capacity" -> IntV(design)
          [] q = "full_capacity" -> IntV(full)
          [] OTHER -> IntV(120)]

\* the reports: none, a worn battery, a battery above its design capacity, a
\* report without the design capacity line
Reports ==
    { NoReport,
      Report(Fields(50000, 45000)),
      Report(Fields(40000, 45000)),
      Report([q \in {"manufacturer", "full_capacity"} |-> Fields(0, 45000)[q]]) }

\* the content of a sysfs file after _read_file: None when the file is missing,
\* unreadable or empty, else its text; IntV stands for the text of an integer.
\* The numbers are small enough for the products the getters take of them.
SysfsValues(file) ==
    CASE file = "capacity" -> {NoneV, IntV(0 - 10), IntV(0), IntV(76), IntV(150), StrV("abc")}
      [] file = "status" ->
            {NoneV, StrV("Charging"), StrV("Discharging"), StrV("Not charging"), StrV("Full")}
      [] file = "power_now" ->
            {NoneV, IntV(0), IntV(5000000), IntV(0 - 5000000), IntV(20000000),
             IntV(25000000)}
      [] file = "online" -> {NoneV, StrV("0"), StrV("1")}
      [] file = "technology" ->
            {NoneV, StrV("Li-poly"), StrV("Li-ion"), StrV("Unknown"), StrV("Unkown")}
      [] file = "current_now" -> {NoneV, IntV(40000), IntV(40001)}
      [] file = "voltage_now" -> {NoneV, IntV(50000)}
      [] file = "energy_full" -> {NoneV, IntV(45000), IntV(55000), IntV(0 - 45000)}
      [] file = "energy_full_design" -> {NoneV, IntV(0), IntV(0 - 50000), IntV(50000)}
      [] file = "charge_full" -> {NoneV, IntV(4000), IntV(6000)}
      [] file = "charge_full_design" -> {NoneV, IntV(5000)}
      [] file = "energy_now" -> {NoneV, IntV(38000000)}
      [] OTHER -> {NoneV, IntV(3000000)}

NoDir == [f \in {} |-> NoneV]

\* no getter was called yet
NoOut ==
    [getter |-> "none", state |-> NoState, state2 |-> NoState, dir |-> NoDir,
     v |-> NoneV, raised |-> FALSE]

(***************************************************************************)
(* The machine a Battery is constructed on, and what a construction leaves. *)
(***************************************************************************)
\* a SYSTEM_POWER_STATUS as GetSystemPowerStatus fills it, each field the
\* unsigned byte the system writes; ok is the return value of the call
PowerStatus(ok, ac, flag, percent) ==
    [ok |-> ok, ACLineStatus |-> ac, BatteryFlag |-> flag, BatteryLifePercent |-> percent]

\* AC line off, on, unknown; flag medium, high, charging, no system battery,
\* unknown; a percentage and the unknown percentage
PowerStatuses ==
    { PowerStatus(TRUE, ac, flag, percent) :
          ac \in {0, 1, 255}, flag \in {0, 1, 8, 128, 255}, percent \in {76, 255} }
    \cup {PowerStatus(FALSE, 0, 0, 0)}

NoPowerStatus == PowerStatus(FALSE, 0, 0, 0)

\* one entry of /sys/class/power_supply: its name, the stripped content of
\* its type file ("" when the file is missing, unreadable or empty), and
\* whether it holds one of capacity, energy_now, charge_now
Supply(name, type, essential) == [name |-> name, type |-> type, essential |-> essential]

Supplies ==
    { Supply("BAT0", "Battery", TRUE),
      Supply("BAT0", "", TRUE),
      Supply("BAT1", "Battery", TRUE),
      Supply("BAT1", "Battery", FALSE),
      Supply("AC", "Mains", FALSE),
      Supply("hidpp_battery_0", "Battery", TRUE) }

\* entry.name.lower().startswith(("bat", "battery")) over the names above
BatPrefixed == {"BAT0", "BAT1"}

\* the directory listings: at most MaxSupplies entries, no name twice
Listings ==
    { l \in UNION { [1..n -> Supplies] : n \in 0..MaxSupplies } :
          \A i, j \in DOMAIN l : i # j => l[i].name # l[j].name }

Host(status, exists, supplies) ==
    [status |-> status, exists |-> exists, supplies |-> supplies]

NoHost == Host(NoPowerStatus, FALSE, << >>)

WindowsHosts == { Host(st, FALSE, << >>) : st \in PowerStatuses }

\* /sys/class/power_supply missing, or present with a listing
LinuxHosts == {NoHost} \cup { Host(NoPowerStatus, TRUE, l) : l \in Listings }

\* the battery_name argument of the Linux Battery; "" stands for None
BatteryNames == {"", "BAT0", "BAT1"}

\* no Battery was constructed yet
NoInst ==
    [class |-> "none", status |-> "none", exc |-> "none", probe |-> "none",
     sources |-> FALSE, _battery_path |-> "unset", _ac_adapter_paths |-> << >>,
     battery_name |-> ""]

\* a Battery whose construction ended; _battery_path is "unset" when the
\* attribute was never assigned
Instance(class, path, adapters) ==
    [class |-> class, status |-> "ready", exc |-> "none", probe |-> "true",
     sources |-> TRUE, _battery_path |-> path, _ac_adapter_paths |-> adapters,
     battery_name |-> ""]

\* a construction that raised exc; probe is what _has_battery did, sources
\* tells whether the construction had started on its sources
Refused(class, exc, probe, sources, adapters) ==
    [class |-> class, status |-> "raised", exc |-> exc, probe |-> probe,
     sources |-> sources, _battery_path |-> "unset", _ac_adapter_paths |-> adapters,
     battery_name |-> ""]

\* a file holding a report: missing, not a regular file, one whose directory
\* cannot be searched, one that cannot be read or decoded, or its text; the
\* text NoReport is the empty text
File(kind, text) == [kind |-> kind, text |-> text]

NoFile == File("missing", NoReport)

\* the texts powercfg writes: a full report, and a page without battery lines
ReportTexts ==
    { Report(Fields(50000, 45000)), Report([q \in {} |-> NoneV]) }

CacheFiles ==
    { File(k, NoReport) : k \in {"missing", "notfile", "inaccessible", "unreadable"} }
    \cup { File("text", t) : t \in ReportTexts \cup {NoReport} }

\* how one run of powercfg /batteryreport ends: it times out, exits with an
\* error, prints no "saved to file path" line, names a file that is not
\* there, or names a file that is; then the file cannot be read or has a text
Outcome(kind, text) == [kind |-> kind, text |-> text]

Outcomes ==
    { Outcome(k, NoReport) : k \in {"timeout", "error", "no_phrase", "no_file", "unreadable"} }
    \cup { Outcome("text", t) : t \in ReportTexts \cup {NoReport} }

NoOutcome == Outcome("none", NoReport)

NoDisk == [cache |-> NoFile, report |-> "none"]

\* _initialize_report was not called yet
NoRep ==
    [state |-> "UNINITIALIZED", force_refresh |-> FALSE, cache |-> NoFile,
     command |-> FALSE, outcome |-> NoOutcome, unlink_ok |-> FALSE, saved |-> FALSE,
     serial |-> 0]

(***************************************************************************)
(* The state of one _BatteryPy instance and of its caller.                 *)
(***************************************************************************)
\* the threads that may be inside _get_battery_state at once
MaxThreads == 2

Threads == 1..MaxThreads

\* a thread outside _get_battery_state
IdleThread == [pc |-> "idle", use_cache |-> FALSE, current_time |-> 0, state |-> NoState]

\* no thread is inside _get_battery_state and no power query was issued: top is
\* the latest current_time of a call whose query succeeded (-1: none), again
\* tells that a caching call issued its query less than the cache duration
\* after such a call
NoWork == [th |-> [t \in Threads |-> IdleThread], top |-> 0 - 1, again |-> FALSE]

\* no estimate is memoised: neither lru_cache nor self._voltage_cache holds one
NoVolt == [lru |-> FALSE, attr |-> FALSE, v |-> NoneV, runs |-> 0]

VARIABLES
    dev_mode,         \* self._dev_mode
    now,              \* time.time()
    heap,             \* the mapping objects alive, by identity
    _cached_result,   \* self._cached_result: 0 (None) or the identity of a mapping
    _last_cache_time, \* self._last_cache_time
    held,             \* the identity of the mapping the caller was given last, or 0
                      \* (the caller lets go of it when a call does not return at once)
    pc,               \* "idle", "collect" (inside as_completed), "join" (pool shutdown)
    cur,              \* the arguments and current_time of the call in progress
    plan,             \* how each getter behaves in the call in progress
    fut,              \* the futures of the call in progress
    data,             \* the data dict of _get_result_parallel
    invoked,          \* the getters invoked by the last call
    ret,              \* what the last call gave its caller: the mapping as returned,
                      \* the call's arguments and time, its getters that were slow
    captured,         \* the result and time of the last call that cached its result
    platform,         \* platform.system(): which Battery class is defined
    _power_prof,      \* Windows: ctypes.windll.powrprof was loaded
    _cached_state,    \* Windows: self._cached_state
    _last_api_call,   \* Windows: self._last_api_call
    _report_data,     \* Windows: self._battery_report._report_data
    out,              \* the last call of a metric getter, of a report method or of a
                      \* formatting helper: what it read and returned
    host,             \* the machine: its power status and its power-supply directory
    inst,             \* the last construction of a Battery: how it ended, what it set
    disk,             \* the report cache file and the report file powercfg wrote
    rep,              \* the last _initialize_report: what it found and what it did
    volt,             \* the memo of _estimate_battery_voltage: the lru_cache entry
                      \* and self._voltage_cache, and how often the estimate was
                      \* calculated since the memo was last empty
    work              \* Windows: the threads inside _get_battery_state, and what
                      \* the power queries issued so far amount to

aggVars ==
    << dev_mode, now, heap, _cached_result, _last_cache_time, held, pc, cur, plan, fut,
       data, invoked, ret, captured >>

srcVars == << platform, _power_prof, _cached_state, _last_api_call, _report_data, out >>

ctorVars == << host, inst, disk, rep, volt, work >>

vars == << aggVars, srcVars, ctorVars >>

\* the value each getter returns when it works; the readings drift with the clock
Reading(k, clock) ==
    CASE k = "battery_percent" -> IntV(76 - clock)
      [] k = "is_plugged" -> BoolV(clock % 2 = 0)
      [] k = "design_capacity" -> IntV(50000)
      [] k = "remaining_capacity" -> IntV(38000 - 100 * clock)
      [] k = "charge_rate" -> IntV(IF clock % 2 = 0 THEN 15000 ELSE 0 - 8000)
      [] k = "is_fast_charge" -> BoolV(FALSE)
      [] k = "manufacturer" -> StrV("SMP")
      [] k = "battery_technology" -> StrV("Lithium-ion")
      [] k = "cycle_count" -> IntV(120)
      [] k = "battery_health" -> FloatV(90 * Micro)
      [] k = "battery_voltage" -> FloatV(11500000 - 10000 * clock)
      [] OTHER -> FloatV(30500000)

(***************************************************************************)
(* What one getter invocation does: "ok" returns its reading, "none"       *)
(* returns None, "exc" raises an Exception, "timeout" raises TimeoutError, *)
(* "huge" returns an int float() cannot take; "slow" returns its reading   *)
(* after more than the per-task timeout, "late" after more than the        *)
(* overall timeout, and "hang" never returns.                              *)
(***************************************************************************)
InstantFaults == {"none", "exc", "timeout", "huge"}
TimedFaults == {"slow", "late", "hang"}
HugeKeys ==
    { "battery_percent", "design_capacity", "remaining_capacity", "charge_rate",
      "cycle_count" }

SlowTime == PerTaskTimeout + 1
LateTime == 2 * _timeout + 1
Never == 0 - 1

Duration(kind) == IF kind = "slow" THEN SlowTime ELSE LateTime

\* the getters that may misbehave: the first task, a string getter, the last task
FaultyKeys == { "battery_percent", "manufacturer", "battery_temperature" }

NoPlan == [k \in Keys |-> "ok"]

\* the behaviours a call may meet: every getter works, or one of FaultyKeys misbehaves
Plans(kinds) ==
    {NoPlan} \cup
    { [k \in Keys |-> IF k = f THEN kind ELSE "ok"] :
        f \in FaultyKeys, kind \in kinds \ {"ok"} }

PlanAllowed(p) == \A k \in Keys : p[k] = "huge" => k \in HugeKeys

\* _safe_execute(func): the value returned, or raised when TimeoutError is re-raised
_safe_execute(k, kind, clock) ==
    CASE kind = "timeout" -> [raised |-> TRUE, v |-> NoneV]
      [] kind \in {"none", "exc"} -> [raised |-> FALSE, v |-> NoneV]
      [] kind = "huge" -> [raised |-> FALSE, v |-> HugeV]
      [] OTHER -> [raised |-> FALSE, v |-> Reading(k, clock)]

\* the position of the first getter that raises out of _safe_execute, or 0
RECURSIVE FirstRaise(_, _)
FirstRaise(p, i) ==
    IF i > Len(TaskKeys) THEN 0
    ELSE IF _safe_execute(TaskKeys[i], p[TaskKeys[i]], 0).raised THEN i
    ELSE FirstRaise(p, i + 1)

\* _get_result_sequential: the dict comprehension over data_methods
SeqRaw(p, clock) == [k \in Keys |-> _safe_execute(k, p[k], clock).v]

SeqInvoked(p) ==
    IF FirstRaise(p, 1) = 0 THEN Keys
    ELSE { TaskKeys[i] : i \in 1..FirstRaise(p, 1) }

(***************************************************************************)
(* Mapping objects.  Three identities are enough: the cached mapping, the  *)
(* one the caller holds, and the one being built; an object nobody refers  *)
(* to any more is dropped and its identity reused.                         *)
(***************************************************************************)
Ids == 1..3
NoMapping == [k \in {} |-> ""]
NoObjects == [i \in {} |-> NoMapping]
FreeId(live) == CHOOSE i \in Ids \ live : \A j \in Ids \ live : i <= j

NoData == [k \in {} |-> NoneV]
NoFut == [k \in {} |-> 0]
NoCall == [use_cache |-> FALSE, parallel |-> FALSE, current_time |-> 0, deadline |-> 0]
NoRet ==
    [status |-> "none", ref |-> 0, path |-> "none", val |-> NoMapping,
     use_cache |-> FALSE, parallel |-> FALSE, start |-> 0, slow |-> {}, serial |-> 0]
NoCapture == [val |-> NoMapping, at |-> 0]

Init ==
    /\ dev_mode \in BOOLEAN
    /\ now = 0
    /\ heap = [i \in Ids |-> NoMapping]
    /\ _cached_result = 0
    /\ _last_cache_time = 0
    /\ held = 0
    /\ pc = "idle"
    /\ cur = NoCall
    /\ plan = NoPlan
    /\ fut = NoFut
    /\ data = NoData
    /\ invoked = {}
    /\ ret = NoRet
    /\ captured = NoCapture
    /\ platform = "abstract"
    /\ _power_prof = FALSE
    /\ _cached_state = NoState
    /\ _last_api_call = 0
    /\ _report_data = NoReport
    /\ out = NoOut
    /\ host = NoHost
    /\ inst = Instance("Battery", "unset", << >>)
    /\ disk = NoDisk
    /\ rep = NoRep
    /\ volt = NoVolt
    /\ work = NoWork

(***************************************************************************)
(* The thread pool of _get_result_parallel.  A getter that returns at once *)
(* is run, completed and yielded by as_completed in the step that starts   *)
(* it; a timed getter occupies one of the max_workers threads until its    *)
(* finishing time.  The work queue is served in submission order.          *)
(***************************************************************************)
Running(f) == { k \in DOMAIN f : f[k].st = "running" }

Submitted ==
    [k \in Keys |-> [st |-> "queued", fin |-> 0, res |-> [raised |-> FALSE, v |-> NoneV]]]

\* result = future.result(timeout=1.0) on a completed future; an exception gives None
FutureResult(f) == IF f.res.raised THEN NoneV ELSE f.res.v

RECURSIVE RunQueue(_, _, _, _)
RunQueue(q, i, p, clock) ==
    IF i > Len(TaskKeys) THEN q
    ELSE LET k == TaskKeys[i] IN
         IF q.fut[k].st # "queued" THEN RunQueue(q, i + 1, p, clock)
         ELSE IF Cardinality(Running(q.fut)) >= max_workers THEN q
         ELSE IF p[k] \in TimedFaults
              THEN RunQueue(
                     [q EXCEPT !.fut[k] =
                         [st |-> "running",
                          fin |-> IF p[k] = "hang" THEN Never ELSE clock + Duration(p[k]),
                          res |-> _safe_execute(k, p[k], clock)],
                       !.started = @ \cup {k}],
                     i + 1, p, clock)
              ELSE LET r == _safe_execute(k, p[k], clock) IN
                   RunQueue(
                     [fut |-> [q.fut EXCEPT ![k] = [st |-> "yielded", fin |-> clock, res |-> r]],
                      data |-> [x \in DOMAIN q.data \cup {k} |->
                                   IF x = k THEN FutureResult([res |-> r]) ELSE q.data[x]],
                      started |-> q.started \cup {k}],
                     i + 1, p, clock)

AllYielded(f) == \A k \in DOMAIN f : f[k].st = "yielded"

(***************************************************************************)
(* How a get_result call ends.                                             *)
(***************************************************************************)
\* the time test of the cache with the boundary on the wrong side
CacheValidInclusive(use_cache, current_time) ==
    /\ use_cache
    /\ _cached_result # 0
    /\ DOMAIN heap[_cached_result] # {}
    /\ current_time - _last_cache_time <= _cache_ttl

\* use_cache and self._cached_result and current_time - self._last_cache_time < ttl
CacheValid(use_cache, current_time) ==
    /\ use_cache
    /\ _cached_result # 0
    /\ DOMAIN heap[_cached_result] # {}
    /\ current_time - _last_cache_time < _cache_ttl

Given(status, ref, path, val, c) ==
    [status |-> status, ref |-> ref, path |-> path, val |-> val,
     use_cache |-> c.use_cache, parallel |-> c.parallel, start |-> c.current_time,
     slow |-> { k \in Keys : plan[k] = "slow" }, serial |-> 1 - ret.serial]

\* the objects alive once the caller holds h and the cache holds c
Keep(h, c, new) ==
    [i \in Ids |-> IF i \in DOMAIN new THEN new[i]
                   ELSE IF i \in {h, c} THEN heap[i] ELSE NoMapping]

\* the cache hit without the copy
ReturnCachedLive(path, c) ==
    /\ heap' = Keep(_cached_result, _cached_result, NoObjects)
    /\ held' = _cached_result
    /\ ret' = Given("returned", _cached_result, path, heap[_cached_result], c)
    /\ UNCHANGED << _cached_result, _last_cache_time, captured >>

\* return self._cached_result.copy()
ReturnCachedCopy(path, c) ==
    LET a == FreeId({_cached_result}) IN
    /\ heap' = Keep(a, _cached_result, (a :> heap[_cached_result]))
    /\ held' = a
    /\ ret' = Given("returned", a, path, heap[_cached_result], c)
    /\ UNCHANGED << _cached_result, _last_cache_time, captured >>

\* if data: self._cached_result = data.copy(); self._last_cache_time = current_time
\* return data
ReturnFresh(formatted, path, c) ==
    LET a == FreeId({})
        b == FreeId({a})
    IN
    /\ held' = a
    /\ ret' = Given("returned", a, path, formatted, c)
    /\ IF DOMAIN formatted # {}
       THEN /\ heap' = Keep(a, b, (a :> formatted) @@ (b :> formatted))
            /\ _cached_result' = b
            /\ _last_cache_time' = c.current_time
            /\ captured' = [val |-> formatted, at |-> c.current_time]
       ELSE /\ heap' = Keep(a, _cached_result, (a :> formatted))
            /\ UNCHANGED << _cached_result, _last_cache_time, captured >>

\* return self._get_fallback_result()
ReturnFallback(c) ==
    LET a == FreeId({_cached_result}) IN
    /\ heap' = Keep(a, _cached_result, (a :> _get_fallback_result(now)))
    /\ held' = a
    /\ ret' = Given("returned", a, "fallback", _get_fallback_result(now), c)
    /\ UNCHANGED << _cached_result, _last_cache_time, captured >>

\* raise BatteryPyException(...) from e
RaiseToCaller(c) ==
    /\ ret' = Given("raised", 0, "raised", NoMapping, c)
    /\ UNCHANGED << heap, held, _cached_result, _last_cache_time, captured >>

\* the end of _get_result_parallel and of the try block of get_result
FinishParallel(raw_data, c) ==
    /\ ReturnFresh(_format_result_data(raw_data, now),
                   IF FormatRaises(raw_data) THEN "format_fallback" ELSE "fresh", c)
    /\ pc' = "idle"
    /\ cur' = NoCall
    /\ plan' = NoPlan
    /\ fut' = NoFut
    /\ data' = NoData

NewCall(use_cache, parallel) ==
    [use_cache |-> use_cache, parallel |-> parallel, current_time |-> now,
     deadline |-> now + 2 * _timeout]

(***************************************************************************)
(* get_result(use_cache, parallel)                                         *)
(***************************************************************************)
GetResultCached(use_cache, parallel) ==
    /\ pc = "idle"
    /\ now <= MaxTime
    /\ CacheValid(use_cache, now)
    /\ invoked' = {}
    /\ ReturnCachedCopy("hit", NewCall(use_cache, parallel))
    /\ UNCHANGED << dev_mode, now, pc, cur, plan, fut, data >>
    /\ UNCHANGED << srcVars, ctorVars >>

GetResultSequential(use_cache, p) ==
    /\ pc = "idle"
    /\ now <= MaxTime
    /\ ~CacheValid(use_cache, now)
    /\ PlanAllowed(p)
    /\ invoked' = SeqInvoked(p)
    /\ LET c == NewCall(use_cache, FALSE) IN
       IF FirstRaise(p, 1) = 0
       THEN ReturnFresh(_format_result_data(SeqRaw(p, now), now),
                        IF FormatRaises(SeqRaw(p, now)) THEN "format_fallback" ELSE "fresh",
                        c)
       ELSE IF dev_mode THEN RaiseToCaller(c)
       ELSE IF _cached_result # 0 /\ DOMAIN heap[_cached_result] # {}
            THEN ReturnCachedCopy("stale", c)
       ELSE ReturnFallback(c)
    /\ UNCHANGED << dev_mode, now, pc, cur, plan, fut, data >>
    /\ UNCHANGED << srcVars, ctorVars >>

GetResultParallel(use_cache, p) ==
    /\ pc = "idle"
    /\ now <= MaxTime
    /\ ~CacheValid(use_cache, now)
    /\ PlanAllowed(p)
    /\ LET c == NewCall(use_cache, TRUE)
           q == RunQueue([fut |-> Submitted, data |-> NoData, started |-> {}], 1, p, now)
       IN  /\ invoked' = q.started
           /\ IF AllYielded(q.fut)
              THEN FinishParallel(q.data, c)
              ELSE /\ pc' = "collect"
                   /\ cur' = c
                   /\ plan' = p
                   /\ fut' = q.fut
                   /\ data' = q.data
                   /\ held' = 0
                   /\ heap' = Keep(0, _cached_result, NoObjects)
                   /\ ret' = [NoRet EXCEPT !.status = "pending", !.use_cache = use_cache,
                                            !.parallel = TRUE, !.start = now,
                                            !.serial = ret.serial]
                   /\ UNCHANGED << _cached_result, _last_cache_time, captured >>
    /\ UNCHANGED << dev_mode, now >>
    /\ UNCHANGED << srcVars, ctorVars >>

\* a worker thread: the getter of task k returns; the thread takes the next work item
TaskDone(k) ==
    /\ pc \in {"collect", "join"}
    /\ fut[k].st = "running"
    /\ fut[k].fin # Never
    /\ fut[k].fin <= now
    /\ LET q == RunQueue([fut |-> [fut EXCEPT ![k].st = "done"], data |-> data,
                          started |-> invoked], 1, plan, now)
       IN  /\ fut' = q.fut
           /\ data' = q.data
           /\ invoked' = q.started
    /\ UNCHANGED << dev_mode, now, heap, _cached_result, _last_cache_time, held, pc, cur,
                    plan, ret, captured >>
    /\ UNCHANGED << srcVars, ctorVars >>

\* the body of the as_completed loop for the completed future of task k
Yield(k) ==
    /\ pc = "collect"
    /\ fut[k].st = "done"
    /\ LET f == [fut EXCEPT ![k].st = "yielded"]
           d == [x \in DOMAIN data \cup {k} |->
                    IF x = k THEN FutureResult(fut[k]) ELSE data[x]]
       IN  IF AllYielded(f)
           THEN FinishParallel(d, cur)
           ELSE /\ fut' = f
                /\ data' = d
                /\ UNCHANGED << heap, held, ret, _cached_result, _last_cache_time,
                                captured, pc, cur, plan >>
    /\ UNCHANGED << dev_mode, now, invoked >>
    /\ UNCHANGED << srcVars, ctorVars >>

\* as_completed raises TimeoutError: the handler, the key completion loop, the with exit
OverallTimeout ==
    /\ pc = "collect"
    /\ now >= cur.deadline
    /\ LET f == [k \in Keys |->
                    IF fut[k].st = "queued" THEN [fut[k] EXCEPT !.st = "cancelled"]
                    ELSE fut[k]]
           d == [k \in Keys |-> IF k \in DOMAIN data THEN data[k] ELSE NoneV]
       IN  IF Running(f) = {}
           THEN FinishParallel(d, cur)
           ELSE /\ pc' = "join"
                /\ fut' = f
                /\ data' = d
                /\ UNCHANGED << heap, held, ret, _cached_result, _last_cache_time,
                                captured, cur, plan >>
    /\ UNCHANGED << dev_mode, now, invoked >>
    /\ UNCHANGED << srcVars, ctorVars >>

\* the exit of the pool that also takes what the joined workers produced
JoinDoneTakesLate ==
    /\ pc = "join"
    /\ Running(fut) = {}
    /\ FinishParallel([k \in Keys |-> IF fut[k].st = "done" THEN FutureResult(fut[k])
                                      ELSE data[k]], cur)
    /\ UNCHANGED << dev_mode, now, invoked >>
    /\ UNCHANGED << srcVars, ctorVars >>

\* ThreadPoolExecutor.__exit__: shutdown(wait=True) returns once no worker is busy
JoinDone ==
    /\ pc = "join"
    /\ Running(fut) = {}
    /\ FinishParallel(data, cur)
    /\ UNCHANGED << dev_mode, now, invoked >>
    /\ UNCHANGED << srcVars, ctorVars >>

\* something the program does at the present instant is still to happen
Urgent ==
    \/ \E k \in DOMAIN fut : fut[k].st = "running" /\ fut[k].fin # Never /\ fut[k].fin <= now
    \/ pc = "collect" /\ \E k \in DOMAIN fut : fut[k].st = "done"
    \/ pc = "collect" /\ now >= cur.deadline
    \/ pc = "join" /\ Running(fut) = {}

\* a second passes: while idle up to MaxTime, in a call while that changes anything
Tick ==
    /\ ~Urgent
    /\ \/ pc = "idle" /\ now < MaxTime
       \/ pc = "collect"
       \/ pc = "join" /\ \E k \in Running(fut) : fut[k].fin # Never
    /\ now' = now + 1
    /\ UNCHANGED << dev_mode, heap, _cached_result, _last_cache_time, held, pc, cur,
                    plan, fut, data, invoked, ret, captured >>
    /\ UNCHANGED << srcVars, ctorVars >>

\* the caller changes a mapping it was given: deletes a key, adds one, overwrites one
Mutated(m) ==
    [k \in (DOMAIN m \ {"charge_rate"}) \cup {"extra"} |->
        IF k \in {"extra", "manufacturer"} THEN "x" ELSE m[k]]

Mutate ==
    /\ pc = "idle"
    /\ held # 0
    /\ heap' = [heap EXCEPT ![held] = Mutated(@)]
    /\ UNCHANGED << dev_mode, now, _cached_result, _last_cache_time, held, pc, cur,
                    plan, fut, data, invoked, ret, captured >>
    /\ UNCHANGED << srcVars, ctorVars >>

Next ==
    \/ \E uc \in BOOLEAN, par \in BOOLEAN : GetResultCached(uc, par)
    \/ \E uc \in BOOLEAN : \E p \in Plans(InstantFaults) : GetResultSequential(uc, p)
    \/ \E uc \in BOOLEAN : \E p \in Plans(InstantFaults \cup TimedFaults) :
          GetResultParallel(uc, p)
    \/ \E k \in Keys : TaskDone(k)
    \/ \E k \in Keys : Yield(k)
    \/ OverallTimeout
    \/ JoinDone
    \/ Tick
    \/ Mutate

Spec == Init /\ [][Next]_vars

(***************************************************************************)
(* The Windows Battery class: the live state reader and the getters that   *)
(* use it, and the getters answered from the battery report.               *)
(***************************************************************************)
\* the cache test of _get_battery_state
StateCached(use_cache, clock, cached, last) ==
    use_cache /\ cached.valid /\ clock - last < _CACHE_DURATION_SECONDS

\* _get_battery_state at time clock when the API, if called, gives answer:
\* the state returned and what the instance remembers afterwards
_get_battery_state(use_cache, answer, clock, cached, last) ==
    IF ~_power_prof THEN [state |-> NoState, cached |-> cached, last |-> last]
    ELSE IF StateCached(use_cache, clock, cached, last)
         THEN [state |-> cached, cached |-> cached, last |-> last]
    ELSE IF answer.valid THEN [state |-> answer, cached |-> answer, last |-> clock]
    ELSE [state |-> NoState, cached |-> cached, last |-> last]

\* the answers that make a difference to a read: none when the API is not called
Answers(clock, cached, last) ==
    IF ~_power_prof \/ StateCached(TRUE, clock, cached, last) THEN {NoState}
    ELSE ApiAnswers

Clamp(i, lo, hi) == IF i < lo THEN lo ELSE IF i > hi THEN hi ELSE i

\* int((RemainingCapacity / MaxCapacity) * 100), clamped; exact on these readings
Windows_battery_percent(state) ==
    IF ~state.valid \/ ~state.BatteryPresent \/ state.MaxCapacity = 0 THEN IntV(0)
    ELSE IntV(Clamp((state.RemainingCapacity * 100) \div state.MaxCapacity, 0, 100))

Windows_is_plugged(state) == IF state.valid THEN BoolV(state.AcOnLine) ELSE BoolV(FALSE)

Windows_remaining_capacity(state) ==
    IF ~state.valid \/ ~state.BatteryPresent THEN IntV(0)
    ELSE IntV(state.RemainingCapacity)

_is_charging(state) == state.valid /\ state.BatteryPresent /\ state.Charging

\* charge_rate: state is what its own read gave, state2 what the read of
\* _is_charging gave; state.Rate of None raises AttributeError
Windows_charge_rate(state, state2) ==
    IF ~_is_charging(state2) THEN [raised |-> FALSE, v |-> IntV(0)]
    ELSE IF ~state.valid THEN [raised |-> TRUE, v |-> NoneV]
    ELSE LET rate == state.Rate IN
         [raised |-> FALSE,
          v |-> IF state.Discharging /\ rate > 0 THEN IntV(0 - rate)
                ELSE IF state.Charging /\ rate < 0 THEN IntV(Abs(rate))
                ELSE IF state.Charging THEN IntV(rate)
                ELSE IF rate # 0 THEN IntV(0 - Abs(rate)) ELSE IntV(0)]

_parse_html(report, query, as_int) ==
    IF ~report.loaded \/ query \notin DOMAIN report.found
    THEN (IF as_int THEN IntV(0) ELSE StrV("Unknown"))
    ELSE report.found[query]

battery_design_capacity(report) == _parse_html(report, "design_capacity", TRUE)

battery_full_capacity(report) == _parse_html(report, "full_capacity", TRUE)

\* round((full / design) * 100, 2) as a float, for design > 0
HealthRatio(full, design) ==
    FloatV((IF full < 0 THEN 0 - 1 ELSE 1)
           * RoundDiv(Abs(full) * 100 * 100, design) * (Micro \div 100))

get_battery_health_percentage(report) ==
    LET design == battery_design_capacity(report).n
        full == battery_full_capacity(report).n
    IN  IF design > 0 /\ full > 0 THEN HealthRatio(full, design) ELSE FloatV(0)

\* battery_percent, is_plugged, remaining_capacity: one read of the live state
WindowsLive(getter) ==
    /\ platform = "Windows"
    /\ \E answer \in Answers(now, _cached_state, _last_api_call) :
          LET r == _get_battery_state(TRUE, answer, now, _cached_state, _last_api_call)
          IN  /\ _cached_state' = r.cached
              /\ _last_api_call' = r.last
              /\ out' = [getter |-> getter, state |-> r.state, state2 |-> r.state,
                         dir |-> NoDir, raised |-> FALSE,
                         v |-> CASE getter = "battery_percent" ->
                                        Windows_battery_percent(r.state)
                                 [] getter = "is_plugged" -> Windows_is_plugged(r.state)
                                 [] OTHER -> Windows_remaining_capacity(r.state)]
    /\ UNCHANGED << aggVars, ctorVars, platform, _power_prof, _report_data >>

\* charge_rate: its own read of the live state, then the read of _is_charging,
\* which a second boundary may separate from the first
WindowsChargeRate ==
    /\ platform = "Windows"
    /\ \E answer \in Answers(now, _cached_state, _last_api_call), dt \in {0, 1} :
          LET r == _get_battery_state(TRUE, answer, now, _cached_state, _last_api_call)
          IN  /\ now + dt <= MaxTime
              /\ \E answer2 \in Answers(now + dt, r.cached, r.last) :
                    LET r2 == _get_battery_state(TRUE, answer2, now + dt, r.cached, r.last)
                        res == Windows_charge_rate(r.state, r2.state)
                    IN  /\ _cached_state' = r2.cached
                        /\ _last_api_call' = r2.last
                        /\ now' = now + dt
                        /\ out' = [getter |-> "charge_rate", state |-> r.state,
                                   state2 |-> r2.state, dir |-> NoDir,
                                   raised |-> res.raised, v |-> res.v]
    /\ UNCHANGED << dev_mode, heap, _cached_result, _last_cache_time, held, pc, cur, plan,
                    fut, data, invoked, ret, captured >>
    /\ UNCHANGED << platform, _power_prof, _report_data, ctorVars >>

\* is_fast_charge: the read of _is_charging, then charge_rate with its two
\* reads; a second boundary may pass before charge_rate is called
WindowsFastCharge ==
    /\ platform = "Windows"
    /\ \E answer \in Answers(now, _cached_state, _last_api_call) :
          LET r == _get_battery_state(TRUE, answer, now, _cached_state, _last_api_call)
          IN  IF ~_is_charging(r.state)
              THEN /\ _cached_state' = r.cached
                   /\ _last_api_call' = r.last
                   /\ now' = now
                   /\ out' = [getter |-> "is_fast_charge", state |-> r.state,
                              state2 |-> r.state, dir |-> NoDir, raised |-> FALSE,
                              v |-> BoolV(FALSE)]
              ELSE \E dt \in {0, 1} :
                     /\ now + dt <= MaxTime
                     /\ \E answer2 \in Answers(now + dt, r.cached, r.last) :
                          LET r2 == _get_battery_state(TRUE, answer2, now + dt, r.cached,
                                                       r.last)
                          IN  \E answer3 \in Answers(now + dt, r2.cached, r2.last) :
                                LET r3 == _get_battery_state(TRUE, answer3, now + dt,
                                                             r2.cached, r2.last)
                                    res == Windows_charge_rate(r2.state, r3.state)
                                IN  /\ _cached_state' = r3.cached
                                    /\ _last_api_call' = r3.last
                                    /\ now' = now + dt
                                    /\ out' = [getter |-> "is_fast_charge",
                                               state |-> r2.state, state2 |-> r3.state,
                                               dir |-> NoDir, raised |-> res.raised,
                                               v |-> IF res.raised THEN NoneV
                                                     ELSE BoolV(Abs(res.v.n)
                                                                > _fast_charge_rate)]
    /\ UNCHANGED << dev_mode, heap, _cached_result, _last_cache_time, held, pc, cur, plan,
                    fut, data, invoked, ret, captured >>
    /\ UNCHANGED << platform, _power_prof, _report_data, ctorVars >>

\* design_capacity, battery_health: answered from the report
WindowsReport(getter) ==
    /\ platform = "Windows"
    /\ out' = [getter |-> getter, state |-> NoState, state2 |-> NoState, dir |-> NoDir,
               raised |-> FALSE,
               v |-> IF getter = "design_capacity"
                     THEN battery_design_capacity(_report_data)
                     ELSE get_battery_health_percentage(_report_data)]
    /\ UNCHANGED << aggVars, ctorVars, platform, _power_prof, _cached_state, _last_api_call,
                    _report_data >>

(***************************************************************************)
(* The Linux Battery class with a battery directory found: each getter as  *)
(* a function of the contents of the sysfs files it reads.                 *)
(***************************************************************************)
\* int(value), None on ValueError
_read_battery_int(content) == IF content.t = "int" THEN content ELSE NoneV

\* str.lower() of the status texts
Lower(x) ==
    CASE x = "Charging" -> "charging"
      [] x = "Discharging" -> "discharging"
      [] x = "Not charging" -> "not charging"
      [] x = "Full" -> "full"
      [] OTHER -> x

Linux_battery_percent(dir) == _read_battery_int(dir["capacity"])

\* energy_full / energy_full_design, else charge_full / charge_full_design, else 0
Linux_battery_health(dir) ==
    LET current_full == _read_battery_int(dir["energy_full"])
        design_full == _read_battery_int(dir["energy_full_design"])
        charge_full == _read_battery_int(dir["charge_full"])
        charge_design == _read_battery_int(dir["charge_full_design"])
    IN  IF current_full.t = "int" /\ design_full.t = "int" /\ design_full.n > 0
        THEN HealthRatio(current_full.n, design_full.n)
        ELSE IF charge_full.t = "int" /\ charge_design.t = "int" /\ charge_design.n > 0
        THEN HealthRatio(charge_full.n, charge_design.n)
        ELSE IntV(0)

signed_power(value_uw, status) ==
    LET mw == Abs(value_uw) \div 1000 IN
    IF status.t = "str" /\ status.s # "" /\ Lower(status.s) = "discharging"
    THEN 0 - mw ELSE mw

\* power_now, else current_now * voltage_now, else None
Linux_charge_rate(dir) ==
    LET status == dir["status"]
        power_uw == _read_battery_int(dir["power_now"])
        current_ua == _read_battery_int(dir["current_now"])
        voltage_uv == _read_battery_int(dir["voltage_now"])
    IN  IF power_uw.t = "int" THEN IntV(signed_power(power_uw.n, status))
        ELSE IF current_ua.t = "int" /\ voltage_uv.t = "int"
        THEN IntV(signed_power(Abs(current_ua.n) * voltage_uv.n, status) \div 1000)
        ELSE NoneV

\* remaining_capacity and design_capacity: the energy file, else the charge file
Linux_capacity(energy, charge) ==
    IF _read_battery_int(energy).t = "int" THEN IntV(_read_battery_int(energy).n \div 1000)
    ELSE IF _read_battery_int(charge).t = "int"
    THEN IntV(_read_battery_int(charge).n \div 1000)
    ELSE NoneV

LinuxOut(getter, dir, v) ==
    [getter |-> getter, state |-> NoState, state2 |-> NoState, dir |-> dir,
     raised |-> FALSE, v |-> v]

LinuxPercent ==
    /\ platform = "Linux"
    /\ \E capacity \in SysfsValues("capacity") :
          LET dir == [f \in {"capacity"} |-> capacity]
          IN  out' = LinuxOut("battery_percent", dir, Linux_battery_percent(dir))
    /\ UNCHANGED << aggVars, ctorVars, platform, _power_prof, _cached_state, _last_api_call,
                    _report_data >>

LinuxHealth ==
    /\ platform = "Linux"
    /\ \E ef \in SysfsValues("energy_full"), efd \in SysfsValues("energy_full_design"),
          cf \in SysfsValues("charge_full"), cfd \in SysfsValues("charge_full_design") :
          LET dir == [f \in {"energy_full", "energy_full_design", "charge_full",
                             "charge_full_design"} |->
                         CASE f = "energy_full" -> ef
                           [] f = "energy_full_design" -> efd
                           [] f = "charge_full" -> cf
                           [] OTHER -> cfd]
          IN  out' = LinuxOut("battery_health", dir, Linux_battery_health(dir))
    /\ UNCHANGED << aggVars, ctorVars, platform, _power_prof, _cached_state, _last_api_call,
                    _report_data >>

LinuxChargeRate ==
    /\ platform = "Linux"
    /\ \E st \in SysfsValues("status"), pw \in SysfsValues("power_now"),
          cu \in SysfsValues("current_now"), vo \in SysfsValues("voltage_now") :
          LET dir == [f \in {"status", "power_now", "current_now", "voltage_now"} |->
                         CASE f = "status" -> st
                           [] f = "power_now" -> pw
                           [] f = "current_now" -> cu
                           [] OTHER -> vo]
          IN  out' = LinuxOut("charge_rate", dir, Linux_charge_rate(dir))
    /\ UNCHANGED << aggVars, ctorVars, platform, _power_prof, _cached_state, _last_api_call,
                    _report_data >>

\* remaining_capacity reads energy_now and charge_now, design_capacity reads
\* energy_full_design and charge_full_design
LinuxCapacity(getter) ==
    /\ platform = "Linux"
    /\ LET energy == IF getter = "remaining_capacity" THEN "energy_now"
                     ELSE "energy_full_design"
           charge == IF getter = "remaining_capacity" THEN "charge_now"
                     ELSE "charge_full_design"
       IN  \E e \in SysfsValues(energy), c \in SysfsValues(charge) :
              LET dir == [f \in {energy, charge} |-> IF f = energy THEN e ELSE c]
              IN  out' = LinuxOut(getter, dir, Linux_capacity(e, c))
    /\ UNCHANGED << aggVars, ctorVars, platform, _power_prof, _cached_state, _last_api_call,
                    _report_data >>

\* the online files of the AC adapters found at construction, in their order
Onlines == UNION { [1..n -> SysfsValues("online")] : n \in 0..MaxSupplies }

\* is_plugged: True when an adapter reads "1", else by the battery status,
\* else None
Linux_is_plugged(online, status) ==
    IF \E i \in DOMAIN online : online[i] = StrV("1") THEN BoolV(TRUE)
    ELSE IF Truthy(status) THEN BoolV(Lower(status.s) \in {"charging", "full"})
    ELSE NoneV

Linux_is_fast_charge(online, dir) ==
    LET status == dir["status"]
        charge_rate == Linux_charge_rate(dir)
    IN  IF ~Truthy(Linux_is_plugged(online, status)) THEN BoolV(FALSE)
        ELSE IF ~Truthy(status) \/ Lower(status.s) # "charging" THEN BoolV(FALSE)
        ELSE IF charge_rate.t = "none" \/ charge_rate.n <= 0 THEN BoolV(FALSE)
        ELSE BoolV(charge_rate.n > _fast_charge_rate)

\* the online file of the i-th adapter
OnlineFile(i) ==
    CASE i = 1 -> "AC1/online" [] i = 2 -> "AC2/online" [] i = 3 -> "AC3/online"
      [] OTHER -> "AC/online"

\* the files a getter read: those of the battery and the adapters' online files
WithOnlines(dir, online) ==
    [f \in DOMAIN dir \cup { OnlineFile(i) : i \in DOMAIN online } |->
        IF f \in DOMAIN dir THEN dir[f]
        ELSE online[CHOOSE i \in DOMAIN online : OnlineFile(i) = f]]

LinuxIsPlugged ==
    /\ platform = "Linux"
    /\ \E online \in Onlines, st \in SysfsValues("status") :
          out' = LinuxOut("is_plugged", WithOnlines([f \in {"status"} |-> st], online),
                          Linux_is_plugged(online, st))
    /\ UNCHANGED << aggVars, ctorVars, platform, _power_prof, _cached_state, _last_api_call,
                    _report_data >>

\* current_now and voltage_now, both missing or both there
CurrentAndVoltage == { << NoneV, NoneV >>, << IntV(40000), IntV(50000) >> }

LinuxFastCharge ==
    /\ platform = "Linux"
    /\ \E online \in Onlines, st \in SysfsValues("status"),
          pw \in SysfsValues("power_now"), cv \in CurrentAndVoltage :
          LET dir == [f \in {"status", "power_now", "current_now", "voltage_now"} |->
                         CASE f = "status" -> st
                           [] f = "power_now" -> pw
                           [] f = "current_now" -> cv[1]
                           [] OTHER -> cv[2]]
          IN  out' = LinuxOut("is_fast_charge", WithOnlines(dir, online),
                              Linux_is_fast_charge(online, dir))
    /\ UNCHANGED << aggVars, ctorVars, platform, _power_prof, _cached_state, _last_api_call,
                    _report_data >>

(***************************************************************************)
(* The getters called one after another on one Battery instance.           *)
(***************************************************************************)
\* battery_technology: "Lithium-Ion" unless the first read gives the text
\* "Unkown"; then the file is read again, and "Lithium-ion" stands in for a
\* second read that fails
Linux_battery_technology(first, second) ==
    IF first # StrV("Unkown") THEN StrV("Lithium-Ion")
    ELSE IF second # NoneV THEN second
    ELSE StrV("Lithium-ion")

\* the technology file is read once, and a second time after "Unkown"
LinuxTechnology ==
    /\ platform = "Linux"
    /\ \E first \in SysfsValues("technology") :
       \E second \in (IF first = StrV("Unkown") THEN SysfsValues("technology")
                      ELSE {first}) :
          LET dir == IF first = StrV("Unkown")
                     THEN [f \in {"technology", "technology again"} |->
                              IF f = "technology" THEN first ELSE second]
                     ELSE [f \in {"technology"} |-> first]
          IN  out' = LinuxOut("battery_technology", dir,
                              Linux_battery_technology(first, second))
    /\ UNCHANGED << aggVars, ctorVars, platform, _power_prof, _cached_state, _last_api_call,
                    _report_data >>

GetterInit ==
    /\ platform \in {"Windows", "Linux"}
    /\ _power_prof \in (IF platform = "Windows" THEN BOOLEAN ELSE {FALSE})
    /\ _report_data \in (IF platform = "Windows" THEN Reports ELSE {NoReport})
    /\ _cached_state = NoState
    /\ _last_api_call = 0
    /\ out = NoOut
    /\ host = NoHost
    /\ inst = Instance("Battery", IF platform = "Linux" THEN "BAT0" ELSE "unset", << >>)
    /\ disk = NoDisk
    /\ rep = NoRep
    /\ volt = NoVolt
    /\ work = NoWork
    /\ dev_mode = FALSE
    /\ now = 0
    /\ heap = [i \in Ids |-> NoMapping]
    /\ _cached_result = 0
    /\ _last_cache_time = 0
    /\ held = 0
    /\ pc = "idle"
    /\ cur = NoCall
    /\ plan = NoPlan
    /\ fut = NoFut
    /\ data = NoData
    /\ invoked = {}
    /\ ret = NoRet
    /\ captured = NoCapture

GetterNext ==
    \/ \E g \in {"battery_percent", "is_plugged", "remaining_capacity"} : WindowsLive(g)
    \/ WindowsChargeRate
    \/ WindowsFastCharge
    \/ \E g \in {"design_capacity", "battery_health"} : WindowsReport(g)
    \/ LinuxPercent
    \/ LinuxHealth
    \/ LinuxChargeRate
    \/ LinuxIsPlugged
    \/ LinuxFastCharge
    \/ LinuxTechnology
    \/ \E g \in {"remaining_capacity", "design_capacity"} : LinuxCapacity(g)
    \/ (platform = "Windows" /\ Tick)

GetterSpec == GetterInit /\ [][GetterNext]_vars

(***************************************************************************)
(* The battery probe of _BatteryPy and the probe of the package's Windows  *)
(* class.                                                                  *)
(***************************************************************************)
\* a ctypes.c_byte field read back: the byte as a signed number
SignedByte(b) == IF b >= 128 THEN b - 256 ELSE b

\* x & 0x0F of a Python int of either sign
LowNibble(x) == ((x % 16) + 16) % 16

\* _has_battery on Windows: "raised" when GetSystemPowerStatus fails
Windows_has_battery(status) ==
    LET flag == SignedByte(status.BatteryFlag)
        percent == SignedByte(status.BatteryLifePercent)
    IN  IF ~status.ok THEN "raised"
        ELSE IF flag \in {128, 255} /\ percent = 255 THEN "false"
        ELSE IF 0 <= percent /\ percent <= 100 THEN "true"
        ELSE IF LowNibble(flag) # 0 THEN "true" ELSE "false"

\* _has_battery on Linux
Linux_has_battery(h) ==
    IF ~h.exists THEN "false"
    ELSE IF \E i \in DOMAIN h.supplies :
                h.supplies[i].name \in BatPrefixed /\ h.supplies[i].essential
         THEN "true" ELSE "false"

\* _core._is_battery("Windows"): "exit" is sys.exit
_is_battery(status) ==
    LET ac == SignedByte(status.ACLineStatus) IN
    IF ~status.ok THEN "exit"
    ELSE IF ac = 0 THEN "true"
    ELSE IF ac = 1 THEN "false" ELSE "exit"

(***************************************************************************)
(* _BatteryHtmlReport: the report is loaded from the cache file or written *)
(* by powercfg, read, cached and deleted.                                  *)
(***************************************************************************)
\* self._CACHE_REPORT_PATH.exists() and self._CACHE_REPORT_PATH.is_file()
_cache_exists(file) == file.kind \in {"unreadable", "text"}

\* read_text, or None when it raises
_load_cache(file) == IF file.kind = "text" THEN file.text ELSE NoReport

\* the located file after the finally clause
Unlinked(unlink_ok) == IF unlink_ok THEN "deleted" ELSE "present"

\* the cleanup left out of the path on which the read fails
_generate_battery_report_keeps(outcome, unlink_ok) ==
    CASE outcome.kind = "text" -> [data |-> outcome.text, report |-> Unlinked(unlink_ok)]
      [] outcome.kind = "unreadable" -> [data |-> NoReport, report |-> "present"]
      [] OTHER -> [data |-> NoReport, report |-> "none"]

\* what the call returns, and the file the output names once the call is over
_generate_battery_report(outcome, unlink_ok) ==
    CASE outcome.kind = "text" -> [data |-> outcome.text, report |-> Unlinked(unlink_ok)]
      [] outcome.kind = "unreadable" -> [data |-> NoReport, report |-> Unlinked(unlink_ok)]
      [] OTHER -> [data |-> NoReport, report |-> "none"]

\* the cache file after write_text; a failed write leaves it as it was
_save_cache(text, save_ok, file) == IF save_ok THEN File("text", text) ELSE file

\* the test before generation with the cached text disregarded
NeedsReportAlways(loaded) == TRUE

\* if not self._report_data
NeedsReport(loaded) == ~loaded.loaded

\* _initialize_report(force_refresh) with the cache file as it is, the way
\* powercfg ends and whether unlink and write_text work
_initialize_report(force_refresh, file, outcome, unlink_ok, save_ok) ==
    LET raises == ~force_refresh /\ file.kind = "inaccessible"
        loaded == IF ~force_refresh /\ ~raises /\ _cache_exists(file)
                  THEN _load_cache(file) ELSE NoReport
        command == ~raises /\ NeedsReport(loaded)
        gen == _generate_battery_report(outcome, unlink_ok)
        save == command /\ gen.data.loaded
    IN  [data |-> IF raises THEN NoReport ELSE IF command THEN gen.data ELSE loaded,
         command |-> command,
         outcome |-> IF command THEN outcome ELSE NoOutcome,
         report |-> IF command THEN gen.report ELSE "none",
         saved |-> save /\ save_ok,
         cache |-> IF save THEN _save_cache(gen.data, save_ok, file) ELSE file]

\* _BatteryHtmlReport(force_refresh): the effect on the instance and the files
InitReport(force_refresh) ==
    \E outcome \in Outcomes, unlink_ok \in BOOLEAN, save_ok \in BOOLEAN :
        LET r == _initialize_report(force_refresh, disk.cache, outcome, unlink_ok, save_ok)
        IN  /\ _report_data' = r.data
            /\ disk' = [cache |-> r.cache, report |-> r.report]
            /\ rep' = [state |-> IF r.data.loaded THEN "LOADED" ELSE "FAILED",
                       force_refresh |-> force_refresh, cache |-> disk.cache,
                       command |-> r.command, outcome |-> r.outcome,
                       unlink_ok |-> unlink_ok /\ r.report # "none",
                       saved |-> r.saved, serial |-> 1 - rep.serial]

battery_manufacturer(report) == _parse_html(report, "manufacturer", FALSE)

battery_chemistry(report) == _parse_html(report, "chemistry", FALSE)

battery_cycle_count(report) == _parse_html(report, "cycle_count", TRUE)

ReportQueries ==
    {"manufacturer", "chemistry", "design_capacity", "full_capacity", "cycle_count",
     "health"}

\* one of the public methods of the report
ReportLookup(q) ==
    /\ platform = "Windows"
    /\ rep.state # "UNINITIALIZED"
    /\ out' = [getter |-> q, state |-> NoState, state2 |-> NoState, dir |-> NoDir,
               raised |-> FALSE,
               v |-> CASE q = "manufacturer" -> battery_manufacturer(_report_data)
                       [] q = "chemistry" -> battery_chemistry(_report_data)
                       [] q = "design_capacity" -> battery_design_capacity(_report_data)
                       [] q = "full_capacity" -> battery_full_capacity(_report_data)
                       [] q = "cycle_count" -> battery_cycle_count(_report_data)
                       [] OTHER -> get_battery_health_percentage(_report_data)]
    /\ UNCHANGED << aggVars, ctorVars, platform, _power_prof, _cached_state,
                    _last_api_call, _report_data >>

\* _BatteryHtmlReport(force_refresh=...) made on its own; nothing was looked
\* up in the new report yet
NewReport(force_refresh) ==
    /\ platform = "Windows"
    /\ InitReport(force_refresh)
    /\ out' = NoOut
    /\ UNCHANGED << aggVars, host, inst, volt, work, platform, _power_prof, _cached_state,
                    _last_api_call >>

\* between two constructions the cache file is removed, replaced or protected
CacheChange ==
    /\ platform = "Windows"
    /\ rep.state # "UNINITIALIZED"
    /\ \E f \in CacheFiles : f # disk.cache /\ disk' = [disk EXCEPT !.cache = f]
    /\ UNCHANGED << aggVars, srcVars, host, inst, rep, volt, work >>

(***************************************************************************)
(* The constructors.                                                       *)
(***************************************************************************)
\* the fields _BatteryPy.__init__ sets before the probe
BaseFields(dev) ==
    /\ dev_mode' = dev
    /\ _last_cache_time' = 0
    /\ _cached_result' = 0
    /\ UNCHANGED << now, heap, held, pc, cur, plan, fut, data, invoked, ret, captured >>

\* Battery(dev_mode) of _batterypy.py on Windows
ConstructWindows(dev) ==
    /\ platform = "Windows"
    /\ LET probe == Windows_has_battery(host.status) IN
       IF probe # "true"
       THEN /\ inst' = Refused("Battery", "BatteryPyException", probe, FALSE, << >>)
            /\ UNCHANGED << aggVars, _power_prof, _cached_state, _last_api_call,
                            _report_data, disk, rep >>
       ELSE /\ BaseFields(dev)
            /\ _last_api_call' = 0
            /\ _cached_state' = NoState
            /\ InitReport(FALSE)
            /\ _power_prof' \in BOOLEAN
            /\ inst' = Instance("Battery", "unset", << >>)
    /\ UNCHANGED << platform, host, out, volt, work >>

\* Battery() of _win_battery.py, the class the package exports on Windows;
\* its report has a cache file of its own and absorbs what goes wrong
ConstructLegacy ==
    /\ platform = "Windows"
    /\ LET probe == _is_battery(host.status) IN
       inst' = CASE probe = "true" -> Instance("legacy", "unset", << >>)
                 [] probe = "false" ->
                        Refused("legacy", "_BatteryNotDetected", probe, FALSE, << >>)
                 [] OTHER -> Refused("legacy", "SystemExit", probe, FALSE, << >>)
    /\ UNCHANGED << aggVars, srcVars, host, disk, rep, volt, work >>

\* the names of the entries of a listing whose type file reads type, in order
OfType(supplies, type) ==
    LET Names[i \in 0..Len(supplies)] ==
            IF i = 0 THEN << >>
            ELSE IF supplies[i].type = type THEN Append(Names[i - 1], supplies[i].name)
            ELSE Names[i - 1]
    IN  Names[Len(supplies)]

InSeq(x, seq) == \E i \in DOMAIN seq : seq[i] = x

\* _discover_power_supplies(preferred_battery) after self._ac_adapter_paths = []
_discover_power_supplies(h, preferred_battery) ==
    LET batteries == OfType(h.supplies, "Battery")
        adapters == OfType(h.supplies, "Mains")
    IN  IF ~h.exists THEN Instance("Battery", "unset", << >>)
        ELSE IF preferred_battery # ""
        THEN (IF InSeq(preferred_battery, batteries)
              THEN Instance("Battery", preferred_battery, adapters)
              ELSE Refused("Battery", "ValueError", "true", TRUE, adapters))
        ELSE IF batteries # << >> THEN Instance("Battery", Head(batteries), adapters)
        ELSE Instance("Battery", "unset", adapters)

\* Battery(dev_mode, battery_name) on Linux
ConstructLinux(dev, battery_name) ==
    /\ platform = "Linux"
    /\ LET probe == Linux_has_battery(host) IN
       IF probe # "true"
       THEN /\ inst' = Refused("Battery", "BatteryPyException", probe, FALSE, << >>)
            /\ UNCHANGED aggVars
       ELSE /\ BaseFields(dev)
            /\ inst' = [_discover_power_supplies(host, battery_name)
                          EXCEPT !.battery_name = battery_name]
    /\ UNCHANGED << srcVars, host, disk, rep, volt, work >>

(***************************************************************************)
(* Batteries constructed one after another on one machine.                 *)
(***************************************************************************)
ConstructInit ==
    /\ platform \in {"Windows", "Linux"}
    /\ host \in (IF platform = "Windows" THEN WindowsHosts ELSE LinuxHosts)
    /\ disk \in (IF platform = "Windows"
                 THEN { [cache |-> f, report |-> "none"] :
                            f \in {NoFile, File("text", Report(Fields(50000, 45000)))} }
                 ELSE {NoDisk})
    /\ inst = NoInst
    /\ rep = NoRep
    /\ volt = NoVolt
    /\ work = NoWork
    /\ _power_prof = FALSE
    /\ _report_data = NoReport
    /\ _cached_state = NoState
    /\ _last_api_call = 0
    /\ out = NoOut
    /\ dev_mode = FALSE
    /\ now = 0
    /\ heap = [i \in Ids |-> NoMapping]
    /\ _cached_result = 0
    /\ _last_cache_time = 0
    /\ held = 0
    /\ pc = "idle"
    /\ cur = NoCall
    /\ plan = NoPlan
    /\ fut = NoFut
    /\ data = NoData
    /\ invoked = {}
    /\ ret = NoRet
    /\ captured = NoCapture

ConstructNext ==
    \/ \E dev \in BOOLEAN : ConstructWindows(dev)
    \/ ConstructLegacy
    \/ \E dev \in BOOLEAN, name \in BatteryNames : ConstructLinux(dev, name)

ConstructSpec == ConstructInit /\ [][ConstructNext]_vars

(***************************************************************************)
(* Reports made one after another on one Windows machine, and looked up.   *)
(***************************************************************************)
ReportInit ==
    /\ platform = "Windows"
    /\ host = Host(PowerStatus(TRUE, 1, 8, 76), FALSE, << >>)
    /\ disk \in { [cache |-> f, report |-> "none"] : f \in CacheFiles }
    /\ inst = NoInst
    /\ rep = NoRep
    /\ volt = NoVolt
    /\ work = NoWork
    /\ _power_prof = FALSE
    /\ _report_data = NoReport
    /\ _cached_state = NoState
    /\ _last_api_call = 0
    /\ out = NoOut
    /\ dev_mode = FALSE
    /\ now = 0
    /\ heap = [i \in Ids |-> NoMapping]
    /\ _cached_result = 0
    /\ _last_cache_time = 0
    /\ held = 0
    /\ pc = "idle"
    /\ cur = NoCall
    /\ plan = NoPlan
    /\ fut = NoFut
    /\ data = NoData
    /\ invoked = {}
    /\ ret = NoRet
    /\ captured = NoCapture

ReportNext ==
    \/ \E force \in BOOLEAN : NewReport(force)
    \/ \E q \in ReportQueries : ReportLookup(q)
    \/ CacheChange

ReportSpec == ReportInit /\ [][ReportNext]_vars

(***************************************************************************)
(* The formatting helpers applied to one raw value after another.          *)
(***************************************************************************)
\* the integers a getter may hand over: around zero, around a thousand, large
SmallInts == { IntV(n) : n \in (0 - MaxSmall)..MaxSmall }

LargeInts == { IntV(999), IntV(1000), IntV(1001), IntV(38000), IntV(1234567) }

\* the raw values of each field of the result; a getter of a numeric field
\* may return a float, a getter of a string field anything
RawInputs(k) ==
    CASE k \in {"power_status", "fast_charge"} -> {NoneV, BoolV(TRUE), BoolV(FALSE)}
      [] k \in {"design_capacity", "remaining_capacity"} ->
            {NoneV} \cup SmallInts \cup LargeInts
      [] k = "charge_rate" ->
            {NoneV, FloatV(0)} \cup SmallInts \cup LargeInts
            \cup { IntV(0 - v.n) : v \in LargeInts }
      [] k \in {"manufacturer", "technology"} ->
            {NoneV, StrV(""), StrV(" "), StrV("  "), StrV("SMP"), StrV("Lithium-ion"),
             IntV(0)}
      [] k \in {"battery_percent", "cycle_count"} ->
            {NoneV, IntV(0), IntV(76), IntV(100), IntV(120), FloatV(76500000)}
      [] OTHER ->
            {NoneV, IntV(0), IntV(12), FloatV(0), FloatV(11500000), FloatV(30540000),
             FloatV(112500000)}

\* one helper of _format_result_data applied to the raw value of its field
FormatValue(k, raw) ==
    /\ platform = "abstract"
    /\ out' = [getter |-> k, state |-> NoState, state2 |-> NoState,
               dir |-> [f \in {"raw"} |-> raw], raised |-> FALSE,
               v |-> StrV(FormatField(k, raw))]
    /\ UNCHANGED << aggVars, ctorVars, platform, _power_prof, _cached_state,
                    _last_api_call, _report_data >>

FormatNext == \E k \in ResultKeys \ {"report_generated"} : \E raw \in RawInputs(k) :
                  FormatValue(k, raw)

FormatSpec == Init /\ [][FormatNext]_vars

(***************************************************************************)
(* Properties of get_result.                                               *)
(***************************************************************************)
\* the fields of a returned mapping that show a metric
MetricKeys == ResultKeys \ {"report_generated"}

\* a get_result call is made in this step
CallMade == pc = "idle" /\ (ret'.serial # ret.serial \/ ret'.status = "pending")

\* C1: every mapping get_result returns has exactly the thirteen keys of the
\* result, whichever path produced it (fresh data, a cache hit, the fallback
\* after an error, the fallback after a formatting failure).
C1_ExactKeys == ret.status = "returned" => DOMAIN ret.val = ResultKeys

\* C2: get_result never raises to its caller, whatever the getters do and
\* whatever dev_mode is.
C2_NeverRaises == ret.status # "raised"

\* C3: a parallel get_result call always returns: while the call is in
\* progress the program is never left without a step to take, even when a
\* getter never finishes.
C3_ParallelReturns == pc = "idle" \/ ENABLED Next

\* C4: in a parallel call, a getter that runs longer than the per-task timeout
\* but ends before the overall timeout is shown as "n/a", and every other
\* metric shows the value its getter returned.
C4_SlowIsAbsent ==
    (ret.status = "returned" /\ ret.parallel /\ ret.slow # {}) =>
        \A k \in MetricKeys :
            ret.val[k] = IF TaskOf(k) \in ret.slow THEN "n/a"
                         ELSE FormatField(k, Reading(TaskOf(k), ret.start))

\* C5: a call with use_cache made less than the TTL after the cache was filled
\* returns a mapping equal to the cached one and invokes no getter; a call
\* made once the TTL has expired invokes the getters again.
C5_CacheTTL ==
    [][ CallMade /\ captured # NoCapture =>
          /\ (ret'.use_cache /\ now - captured.at < _cache_ttl) =>
                 /\ ret'.status = "returned"
                 /\ ret'.val = captured.val
                 /\ invoked' = {}
          /\ now - captured.at >= _cache_ttl => invoked' # {} ]_aggVars

\* a cache hit happened: the mapping cached at an earlier call came back
C5_Witness ==
    /\ ret.status = "returned"
    /\ ret.path = "hit"
    /\ ret.use_cache
    /\ ret.val = captured.val
    /\ invoked = {}

Percentage(v) ==
    \/ v.t = "int" /\ v.n >= 0 /\ v.n <= 100
    \/ v.t = "float" /\ v.n >= 0 /\ v.n <= 100 * Micro

Positive(x) == x.t = "int" /\ x.n > 0

\* the field of the result that shows what the getter returns
FieldOf(getter) == IF getter = "is_plugged" THEN "power_status" ELSE getter

\* C7: battery_percent returns a number within 0..100 for every raw reading,
\* on Windows for any remaining and maximum capacity, on Linux for any content
\* of the capacity file and for a missing file.
C7_PercentInRange == out.getter = "battery_percent" => Percentage(out.v)

\* the full and design capacities battery_health may divide
HealthPairs ==
    IF platform = "Windows"
    THEN { << battery_full_capacity(_report_data), battery_design_capacity(_report_data) >> }
    ELSE { << _read_battery_int(out.dir["energy_full"]),
              _read_battery_int(out.dir["energy_full_design"]) >>,
           << _read_battery_int(out.dir["charge_full"]),
              _read_battery_int(out.dir["charge_full_design"]) >> }

\* C8: battery_health is within 0..100 when the full and the design capacity
\* are positive, also when the full capacity is the larger; it is 0, and
\* nothing is raised, when no design capacity is positive.
C8_HealthInRange ==
    out.getter = "battery_health" =>
        /\ ~out.raised
        /\ (\A pair \in HealthPairs : Positive(pair[1]) /\ Positive(pair[2]))
              => Percentage(out.v)
        /\ (\A pair \in HealthPairs : ~Positive(pair[2])) => out.v.n = 0

\* what the raw reading of a charge_rate call says of the battery
RateReading ==
    IF platform = "Windows"
    THEN IF out.state # out.state2 THEN "mixed"
         ELSE IF _is_charging(out.state) THEN "charging"
         ELSE IF out.state.valid /\ out.state.BatteryPresent /\ out.state.Discharging
              THEN "discharging"
         ELSE "idle"
    ELSE IF out.dir["status"].t # "str" THEN "unknown"
         ELSE IF Lower(out.dir["status"].s) \in {"charging", "discharging"}
              THEN Lower(out.dir["status"].s)
         ELSE "idle"

\* C9: charge_rate is not negative while the battery charges, not positive
\* while it discharges, and exactly 0 while it does neither, on both platforms.
C9_SignConvention ==
    (out.getter = "charge_rate" /\ out.v.t = "int") =>
        /\ RateReading = "charging" => out.v.n >= 0
        /\ RateReading = "discharging" => out.v.n <= 0
        /\ RateReading = "idle" => out.v.n = 0

\* the source of the last getter call had nothing to give: no live state or no
\* battery, no report, none of the sysfs files
Unavailable ==
    CASE platform = "Linux" -> \A f \in DOMAIN out.dir : out.dir[f] = NoneV
      [] out.getter \in {"design_capacity", "battery_health"} -> ~_report_data.loaded
      [] out.getter = "is_plugged" -> ~out.state.valid
      [] OTHER -> ~out.state.valid \/ ~out.state.BatteryPresent

\* C10: a metric its source cannot supply is shown as "n/a", never as a zero
\* put in its place; the charge rate, which may be idle, is left aside.
C10_Placeholder ==
    (out.getter \notin {"none", "charge_rate"} /\ Unavailable) =>
        FormatField(FieldOf(out.getter), out.v) = "n/a"

(***************************************************************************)
(* Properties of construction.                                             *)
(***************************************************************************)
\* a Battery of _batterypy.py was constructed, or its construction raised
Constructed == inst.class = "Battery" /\ inst.status # "none"

\* C11: constructing a Battery when the probe returns false raises
\* BatteryPyException before any source is initialised, and a Battery that
\* was constructed never gets that error from get_result, so that the error
\* always means "no battery".
C11_NoBatteryDistinct ==
    /\ (Constructed /\ inst.probe = "false") =>
           (inst.status = "raised" /\ inst.exc = "BatteryPyException" /\ ~inst.sources)
    /\ ~(inst.status = "ready" /\ ret.status = "raised")

\* the machine has a system battery beyond doubt: the power status tells so
\* with a percentage, or a bat* entry of type Battery holds a capacity file
HostHasBattery ==
    IF platform = "Windows"
    THEN /\ host.status.ok
         /\ host.status.BatteryFlag \notin {128, 255}
         /\ host.status.BatteryLifePercent <= 100
    ELSE /\ host.exists
         /\ \E i \in DOMAIN host.supplies :
                /\ host.supplies[i].name \in BatPrefixed
                /\ host.supplies[i].type = "Battery"
                /\ host.supplies[i].essential

\* the errors that tell the caller there is no battery
NoBatteryErrors == {"BatteryPyException", "_BatteryNotDetected"}

\* C12: the no-battery error is raised only on a machine without a battery:
\* on a machine that has one, no construction ends with that error, and on
\* Windows the construction succeeds with the AC line connected as well as
\* with it disconnected.
C12_OnlyWithoutBattery ==
    (HostHasBattery /\ inst.status # "none") =>
        /\ inst.exc \notin NoBatteryErrors
        /\ (platform = "Windows" /\ host.status.ACLineStatus \in {0, 1}) =>
               inst.status = "ready"

\* C13: a Linux construction fails whenever no power-supply entry has a type
\* file reading "Battery"; it never yields a Battery without a battery
\* device path; and a battery name that is not among the entries of type
\* Battery fails it too.
C13_NoNullDevice ==
    (platform = "Linux" /\ Constructed) =>
        /\ OfType(host.supplies, "Battery") = << >> => inst.status = "raised"
        /\ inst.status = "ready" => inst._battery_path # "unset"
        /\ (inst.battery_name # ""
                /\ ~InSeq(inst.battery_name, OfType(host.supplies, "Battery"))) =>
               inst.status = "raised"

(***************************************************************************)
(* Properties of the power-state getters.                                  *)
(***************************************************************************)
\* the Windows getters answered from the live state
WindowsDirect ==
    {"battery_percent", "remaining_capacity", "charge_rate", "is_plugged", "is_fast_charge"}

\* C14: the Windows getters battery_percent, remaining_capacity, charge_rate,
\* is_plugged and is_fast_charge never raise, however the queries of the live
\* state end, and give 0 or False whenever the state they read is None.
C14_WindowsNeverRaise ==
    (platform = "Windows" /\ out.getter \in WindowsDirect) =>
        /\ ~out.raised
        /\ ~out.state.valid => out.v \in {IntV(0), BoolV(FALSE)}

\* what the online files of the adapters read in the last getter call
OnlineRead == { out.dir[f] : f \in DOMAIN out.dir \cap { OnlineFile(i) : i \in 1..4 } }

\* C15: the Linux is_plugged returns True or False, never None, whatever the
\* adapters found and whatever the battery files hold, with no adapter found
\* and a status file that is unreadable or empty included.
C15_PluggedIsBoolean ==
    (platform = "Linux" /\ out.getter = "is_plugged") => out.v.t = "bool"

\* C16: the Linux is_plugged looks at the battery status only when no adapter
\* was found or no adapter's online file is conclusive: an adapter reading
\* "1" gives True, and adapters that all read "0" give False whatever the
\* battery status says.
C16_AdaptersDecide ==
    (platform = "Linux" /\ out.getter = "is_plugged") =>
        /\ StrV("1") \in OnlineRead => out.v = BoolV(TRUE)
        /\ OnlineRead = {StrV("0")} => out.v = BoolV(FALSE)

\* the last getter call read a status that is "charging" in any case of letters
StatusCharging ==
    /\ "status" \in DOMAIN out.dir
    /\ out.dir["status"].t = "str"
    /\ Lower(out.dir["status"].s) = "charging"

\* C17: is_fast_charge always returns a boolean; on Linux it is True exactly
\* when is_plugged() is true, the status is "charging" and charge_rate() is
\* above 20000 mW, and False in every other case.
C17_FastChargeBoolean ==
    out.getter = "is_fast_charge" =>
        /\ ~out.raised
        /\ out.v.t = "bool"
        /\ platform = "Linux" =>
               LET files == [f \in {"status", "power_now", "current_now", "voltage_now"} |->
                                out.dir[f]]
                   plugged == \/ StrV("1") \in OnlineRead
                              \/ Lower(out.dir["status"].s) \in {"charging", "full"}
                   rate == Linux_charge_rate(files)
               IN  out.v = BoolV(/\ plugged
                                 /\ StatusCharging
                                 /\ rate.t = "int"
                                 /\ rate.n > 20000)

(***************************************************************************)
(* Properties of the formatting step.                                      *)
(***************************************************************************)
\* a formatting helper was applied: its raw value and the text it gave
Formatted == "raw" \in DOMAIN out.dir

\* C18: the formatting step gives every raw value the text of the formatting
\* table: "n/a" for an absent value of any metric; for a capacity "n/a" when
\* absent or not above zero, else the value with thousands separators and
\* " mWh"; for a charge rate "0 mW (Idle)", "... mW (Charging)" or
\* "... mW (Discharging)" with the absolute value; "Plugged In" / "On Battery";
\* "Yes" / "No"; "n/a" for an empty or blank string.
C18_FormattingTable ==
    Formatted =>
        LET raw == out.dir["raw"]
            text == out.v.s
        IN  /\ raw = NoneV => text = "n/a"
            /\ (out.getter \in {"design_capacity", "remaining_capacity"}
                    /\ raw.t = "int") =>
                   text = IF raw.n <= 0 THEN "n/a" ELSE Commas(raw.n) \o " mWh"
            /\ (out.getter = "charge_rate" /\ raw.t = "int") =>
                   text = IF raw.n = 0 THEN "0 mW (Idle)"
                          ELSE IF raw.n > 0 THEN Commas(raw.n) \o " mW (Charging)"
                          ELSE Commas(0 - raw.n) \o " mW (Discharging)"
            /\ (out.getter = "power_status" /\ raw.t = "bool") =>
                   text = IF raw = BoolV(TRUE) THEN "Plugged In" ELSE "On Battery"
            /\ (out.getter = "fast_charge" /\ raw.t = "bool") =>
                   text = IF raw = BoolV(TRUE) THEN "Yes" ELSE "No"
            /\ (out.getter \in {"manufacturer", "technology"}
                    /\ raw \in {StrV(""), StrV(" "), StrV("  ")}) =>
                   text = "n/a"

(***************************************************************************)
(* Properties of the battery report.                                       *)
(***************************************************************************)
\* the cache file is there, can be read and is not empty
GoodCache(file) == file.kind = "text" /\ file.text.loaded

\* C19: with a cached report that is present, readable and not empty, and no
\* forced refresh, the report is LOADED from it without running the report
\* command; the command runs only after a cache miss, an unreadable or empty
\* cache or a forced refresh; and the cache file is written only after a
\* generation that produced a text that is not empty.
C19_ReportLifecycle ==
    rep.state # "UNINITIALIZED" =>
        /\ (GoodCache(rep.cache) /\ ~rep.force_refresh) =>
               (rep.state = "LOADED" /\ ~rep.command /\ _report_data = rep.cache.text)
        /\ rep.command => (rep.force_refresh \/ ~GoodCache(rep.cache))
        /\ rep.saved =>
               (rep.command /\ rep.outcome.kind = "text" /\ rep.outcome.text.loaded)

\* a report was loaded from a good cache file, the command not run
C19_Witness ==
    /\ rep.state = "LOADED"
    /\ GoodCache(rep.cache)
    /\ ~rep.force_refresh
    /\ ~rep.command
    /\ ~rep.saved

\* the report command was run and gave no text
GenerationFailed ==
    /\ rep.command
    /\ rep.outcome.kind \in {"timeout", "error", "no_phrase", "no_file", "unreadable"}

\* the command was run and the file its output names was found
Located == rep.command /\ rep.outcome.kind \in {"unreadable", "text"}

\* what a lookup gives when there is no report
Sentinel(q) ==
    CASE q \in {"manufacturer", "chemistry"} -> StrV("Unknown")
      [] q = "health" -> FloatV(0)
      [] OTHER -> IntV(0)

\* C20: when the generation of the report fails (command error or timeout, no
\* path in its output, file missing, file unreadable) the report is FAILED,
\* and every lookup from then on gives "Unknown", 0 or 0.0 and never raises;
\* the file the command wrote, once located, is deleted whether reading it
\* worked or not, and a deletion that fails does not fail the operation.
C20_FailedReport ==
    /\ GenerationFailed => (rep.state = "FAILED" /\ ~_report_data.loaded)
    /\ (rep.state = "FAILED" /\ out.getter \in ReportQueries) =>
           (~out.raised /\ out.v = Sentinel(out.getter))
    /\ (Located /\ rep.unlink_ok) => disk.report = "deleted"
    /\ (Located /\ ~rep.unlink_ok /\ rep.outcome.text.loaded) =>
           (rep.state = "LOADED" /\ _report_data = rep.outcome.text)

\* the report file was found, could not be read and was deleted; a field of
\* the failed report was looked up
C20_Witness ==
    /\ rep.state = "FAILED"
    /\ rep.outcome.kind = "unreadable"
    /\ rep.unlink_ok
    /\ disk.report = "deleted"
    /\ out.getter = "manufacturer"
    /\ out.v = StrV("Unknown")

(***************************************************************************)
(* clear_cache, the chemistry-based voltage estimate and battery_voltage.  *)
(***************************************************************************)
\* voltage_map of _calculate_voltage_estimate, in millionths of a volt, with
\* the default of 3.7 V and the three cells of chemistries 6 and 8
NominalVoltage(chemistry) ==
    LET cell == CASE chemistry = 3 -> 12 * Micro
                  [] chemistry \in {4, 5} -> 36 * (Micro \div 10)
                  [] chemistry = 7 -> 14 * (Micro \div 10)
                  [] OTHER -> 37 * (Micro \div 10)
    IN  IF chemistry \in {6, 8} THEN 3 * cell ELSE cell

\* what the PowerShell Chemistry query answers: -1 when it fails, times out or
\* prints nothing, else the code it prints
Chemistries == {-1, 1, 3, 4, 6, 7}

\* _calculate_voltage_estimate: subprocess is imported in the Windows branch of
\* the module only, so elsewhere the name is undefined when the body runs
_calculate_voltage_estimate(plat, chemistry) ==
    IF plat # "Windows" THEN [raised |-> TRUE, v |-> NoneV]
    ELSE IF chemistry = -1 THEN [raised |-> FALSE, v |-> NoneV]
    ELSE [raised |-> FALSE, v |-> FloatV(NominalVoltage(chemistry))]

\* _estimate_battery_voltage under lru_cache(maxsize=1): the answer, and the
\* memo afterwards; an exception leaves the memo as it was
_estimate_battery_voltage(memo, plat, chemistry) ==
    IF memo.lru THEN [raised |-> FALSE, v |-> memo.v, volt |-> memo]
    ELSE IF memo.attr
         THEN [raised |-> FALSE, v |-> memo.v, volt |-> [memo EXCEPT !.lru = TRUE]]
    ELSE LET c == _calculate_voltage_estimate(plat, chemistry)
         IN  IF c.raised THEN [raised |-> TRUE, v |-> NoneV, volt |-> memo]
             ELSE [raised |-> FALSE, v |-> c.v,
                   volt |-> [lru |-> TRUE, attr |-> TRUE, v |-> c.v,
                             runs |-> memo.runs + 1]]

\* a direct call of _estimate_battery_voltage
EstimateVoltage ==
    /\ platform \in {"Windows", "Linux"}
    /\ \E chemistry \in Chemistries :
          LET e == _estimate_battery_voltage(volt, platform, chemistry)
          IN  /\ volt' = e.volt
              /\ out' = [NoOut EXCEPT !.getter = "_estimate_battery_voltage",
                                      !.dir = IF volt.lru \/ volt.attr THEN NoDir
                                              ELSE [f \in {"estimate"} |-> e.v],
                                      !.v = e.v, !.raised = e.raised]
    /\ UNCHANGED << aggVars, host, inst, disk, rep, work, platform, _power_prof, _cached_state,
                    _last_api_call, _report_data >>

\* clear_cache: the result cache and the voltage memo are emptied, then
\* self._is_battery_present, which no class defines, is looked up
ClearCache ==
    /\ pc = "idle"
    /\ _cached_result' = 0
    /\ _last_cache_time' = 0
    /\ volt' = NoVolt
    /\ out' = [NoOut EXCEPT !.getter = "clear_cache", !.raised = TRUE]
    /\ UNCHANGED << dev_mode, now, heap, held, pc, cur, plan, fut, data, invoked, ret,
                    captured >>
    /\ UNCHANGED << host, inst, disk, rep, work, platform, _power_prof, _cached_state,
                    _last_api_call, _report_data >>

\* one Battery in use on Windows or on Linux, nothing cached yet
ClearInit ==
    /\ platform \in {"Windows", "Linux"}
    /\ _power_prof = FALSE
    /\ _report_data = NoReport
    /\ _cached_state = NoState
    /\ _last_api_call = 0
    /\ out = NoOut
    /\ host = NoHost
    /\ inst = Instance("Battery", IF platform = "Linux" THEN "BAT0" ELSE "unset", << >>)
    /\ disk = NoDisk
    /\ rep = NoRep
    /\ volt = NoVolt
    /\ work = NoWork
    /\ dev_mode = FALSE
    /\ now = 0
    /\ heap = [i \in Ids |-> NoMapping]
    /\ _cached_result = 0
    /\ _last_cache_time = 0
    /\ held = 0
    /\ pc = "idle"
    /\ cur = NoCall
    /\ plan = NoPlan
    /\ fut = NoFut
    /\ data = NoData
    /\ invoked = {}
    /\ ret = NoRet
    /\ captured = NoCapture

\* get_result in sequential mode, clear_cache and the estimate, in any order;
\* the getters get_result calls are the abstract ones, which keep no memo
ClearNext ==
    \/ \E par \in BOOLEAN : GetResultCached(TRUE, par)
    \/ \E p \in Plans(InstantFaults) : GetResultSequential(TRUE, p)
    \/ ClearCache
    \/ EstimateVoltage
    \/ Tick

ClearSpec == ClearInit /\ [][ClearNext]_vars

\* C21: clear_cache() returns normally (it does not raise), and it forces
\* fresh retrieval: in the state it leaves, get_result(use_cache=True) finds
\* no valid cached result however recently one was stored, and the voltage
\* estimate is no longer memoised, so the next one is recalculated.
C21_ClearCacheReturns ==
    /\ [](out.getter = "clear_cache" => ~out.raised)
    /\ [][ClearCache => /\ ~(CacheValid(TRUE, now))'
                        /\ ~volt'.lru /\ ~volt'.attr]_vars

\* C22: Linux battery_technology() returns the content of the technology file
\* whenever the file is readable ("Li-poly" comes back as "Li-poly"), gives
\* "Lithium-ion" only when the technology is unavailable, and always returns a
\* string.
C22_TechnologyFromFile ==
    out.getter = "battery_technology" =>
        /\ ~out.raised
        /\ out.v.t = "str"
        /\ out.dir["technology"].t = "str" => out.v = out.dir["technology"]
        /\ out.dir["technology"] = NoneV => out.v = StrV("Lithium-ion")

\* the future of task k was not complete when as_completed timed out
Outstanding(k) ==
    \/ fut[k].st = "cancelled"
    \/ fut[k].st \in {"running", "done"} /\ (fut[k].fin = Never \/ fut[k].fin > cur.deadline)

\* a parallel call returns after its overall timeout has expired
ReturnsExpired == pc \in {"collect", "join"} /\ pc' = "idle" /\ now >= cur.deadline

\* C23: when a parallel call returns after the overall timeout, every getter
\* whose future was outstanding at the expiry shows as "n/a", also when it
\* produced a value afterwards, and every getter that completed before the
\* expiry shows the value it returned.
C23_OutstandingAbsent ==
    [][ ReturnsExpired =>
          /\ ret'.status = "returned"
          /\ \A k \in MetricKeys :
                ret'.val[k] = IF Outstanding(TaskOf(k)) THEN "n/a"
                              ELSE FormatField(k, Reading(TaskOf(k), cur.current_time)) ]_vars

\* a call returned once its late getter had finished: that metric is absent,
\* the others are shown
C23_Witness ==
    /\ ret.status = "returned" /\ ret.parallel /\ ret.path = "fresh"
    /\ now >= ret.start + LateTime
    /\ ret.val["battery_percent"] = "n/a"
    /\ ret.val["manufacturer"] = "SMP"

\* the metrics of the returned mapping that do not show what their getter
\* returns at the time the call started
NotShown == { k \in MetricKeys :
                k \notin DOMAIN ret.val
                \/ ret.val[k] # FormatField(k, Reading(TaskOf(k), ret.start)) }

\* C24: a sequential call in which one getter raises an exception, TimeoutError
\* included, returns a mapping in which at most that one metric is absent: the
\* other eleven show the values their getters returned in this call.
C24_OnlyThatMetric ==
    (ret.status # "none" /\ ~ret.parallel /\ ret.path \notin {"hit", "format_fallback"}) =>
        /\ ret.status = "returned"
        /\ Cardinality(NotShown) <= 1

\* C25: Windows charge_rate() normalises the sign of the raw Rate of one live
\* state: Discharging set, Charging clear and a positive Rate r give -r;
\* Charging set and a negative Rate give its absolute value; neither flag set
\* gives 0.
C25_SignNormalisation ==
    (platform = "Windows" /\ out.getter = "charge_rate" /\ out.state.valid
       /\ out.state2 = out.state) =>
        /\ ~out.raised
        /\ (out.state.Discharging /\ ~out.state.Charging /\ out.state.Rate > 0) =>
               out.v = IntV(0 - out.state.Rate)
        /\ (out.state.Charging /\ out.state.Rate < 0) => out.v = IntV(Abs(out.state.Rate))
        /\ (~out.state.Charging /\ ~out.state.Discharging) => out.v = IntV(0)

\* charge_rate took the fallback: power_now gave nothing, current_now and
\* voltage_now are numbers
RateFromCurrent ==
    /\ platform = "Linux" /\ out.getter = "charge_rate"
    /\ _read_battery_int(out.dir["power_now"]) = NoneV
    /\ _read_battery_int(out.dir["current_now"]).t = "int"
    /\ _read_battery_int(out.dir["voltage_now"]).t = "int"

\* C26: when power_now is absent, Linux charge_rate() gives the power computed
\* from current_now (microamperes) and voltage_now (microvolts) in milliwatts:
\* its magnitude is the integer part of |current_now| * voltage_now / 10^9, the
\* same while charging and while discharging.
C26_FallbackInMilliwatts ==
    RateFromCurrent =>
        /\ out.v.t = "int"
        /\ Abs(out.v.n) =
              (Abs(out.dir["current_now"].n) * out.dir["voltage_now"].n)
                  \div (1000 * 1000 * 1000)

\* what the probe is to answer for the unsigned bytes the system wrote
ProbeByBytes(status) ==
    IF status.BatteryFlag \in {128, 255} /\ status.BatteryLifePercent = 255 THEN "false"
    ELSE IF status.BatteryLifePercent \in 0..100 THEN "true"
    ELSE IF status.BatteryFlag % 16 # 0 THEN "true" ELSE "false"

\* C27: the Windows probe answers False whenever BatteryFlag is 128 or 255 and
\* BatteryLifePercent is 255, True for every BatteryLifePercent within 0..100,
\* and (BatteryFlag AND 0x0F) # 0 for every other combination, the bytes taken
\* as unsigned.
C27_ProbeByUnsignedBytes ==
    (platform = "Windows" /\ inst.class = "Battery" /\ inst.status # "none"
       /\ host.status.ok) =>
        inst.probe = ProbeByBytes(host.status)

(***************************************************************************)
(* battery_voltage on Windows and on Linux.                                *)
(***************************************************************************)
\* the direct readings of the Windows battery_voltage, in the order tried:
\* Win32_Battery.DesignVoltage by PowerShell, the registry, wmic, and
\* Win32_PortableBattery.DesignVoltage by PowerShell
VoltageMethods == << "powershell", "registry", "wmic", "portable" >>

\* what a direct reading gives: nothing (it raised, failed or printed no
\* number), or volts in millionths; the registry gives no zero
MethodAnswers(method) ==
    IF method = "registry"
    THEN {NoneV, FloatV(114 * (Micro \div 10)), FloatV(148 * (Micro \div 10))}
    ELSE {NoneV, FloatV(0), FloatV(114 * (Micro \div 10)), FloatV(148 * (Micro \div 10))}

\* the reading ends the call: the PowerShell queries return whatever number
\* was printed, the registry and wmic readings are returned "if voltage"
MethodReturns(method, answer) ==
    IF method \in {"powershell", "portable"} THEN answer # NoneV
    ELSE answer # NoneV /\ answer.n # 0

\* the first reading of m that ends the call, or 0: the estimate is next
RECURSIVE FirstReturn(_, _)
FirstReturn(m, i) ==
    IF i > Len(VoltageMethods) THEN 0
    ELSE IF MethodReturns(VoltageMethods[i], m[VoltageMethods[i]]) THEN i
    ELSE FirstReturn(m, i + 1)

\* battery_voltage on Windows: what was invoked with what answer, the value
\* returned and the memo afterwards
Windows_battery_voltage(m, memo, chemistry) ==
    LET first == FirstReturn(m, 1) IN
    IF first # 0
    THEN [dir |-> [f \in { VoltageMethods[i] : i \in 1..first } |-> m[f]],
          v |-> m[VoltageMethods[first]], raised |-> FALSE, volt |-> memo]
    ELSE LET e == _estimate_battery_voltage(memo, "Windows", chemistry)
         IN  [dir |-> [f \in DOMAIN m \cup {"estimate"} |->
                          IF f = "estimate" THEN e.v ELSE m[f]],
              v |-> e.v, raised |-> e.raised, volt |-> e.volt]

\* battery_voltage on Linux: voltage_now in volts, else the estimate
Linux_battery_voltage(content, memo, chemistry) ==
    LET voltage_uv == _read_battery_int(content) IN
    IF voltage_uv # NoneV
    THEN [dir |-> [f \in {"voltage_now"} |-> content], v |-> FloatV(voltage_uv.n),
          raised |-> FALSE, volt |-> memo]
    ELSE LET e == _estimate_battery_voltage(memo, "Linux", chemistry)
         IN  [dir |-> [f \in {"voltage_now", "estimate"} |->
                          IF f = "estimate" THEN e.v ELSE content],
              v |-> e.v, raised |-> e.raised, volt |-> e.volt]

VoltageOut(r) ==
    [getter |-> "battery_voltage", state |-> NoState, state2 |-> NoState, dir |-> r.dir,
     raised |-> r.raised, v |-> r.v]

WindowsVoltage ==
    /\ platform = "Windows"
    /\ \E m \in [{"powershell", "registry", "wmic", "portable"} -> MethodAnswers("wmic")],
          chemistry \in Chemistries :
          /\ \A f \in DOMAIN m : m[f] \in MethodAnswers(f)
          /\ LET r == Windows_battery_voltage(m, volt, chemistry)
             IN  /\ out' = VoltageOut(r)
                 /\ volt' = r.volt
    /\ UNCHANGED << aggVars, host, inst, disk, rep, work, platform, _power_prof, _cached_state,
                    _last_api_call, _report_data >>

LinuxVoltage ==
    /\ platform = "Linux"
    /\ \E content \in SysfsValues("voltage_now") \cup {StrV("abc")},
          chemistry \in Chemistries :
          LET r == Linux_battery_voltage(content, volt, chemistry)
          IN  /\ out' = VoltageOut(r)
              /\ volt' = r.volt
    /\ UNCHANGED << aggVars, host, inst, disk, rep, work, platform, _power_prof, _cached_state,
                    _last_api_call, _report_data >>

\* battery_voltage, the estimate and clear_cache called in any order
VoltageNext ==
    \/ WindowsVoltage
    \/ LinuxVoltage
    \/ EstimateVoltage
    \/ ClearCache

VoltageSpec == ClearInit /\ [][VoltageNext]_vars

\* the estimate was invoked by the last battery_voltage call
Estimated == "estimate" \in DOMAIN out.dir

\* the direct readings the last battery_voltage call made
DirectRead == DOMAIN out.dir \ {"estimate"}

\* C28: battery_voltage() invokes the chemistry-based estimate only after
\* every direct reading has failed (on Windows PowerShell, registry, wmic and
\* PortableBattery, tried in that order, the first success returned and no
\* later one invoked; on Linux voltage_now); the call returns a voltage or
\* absence and never raises; and the estimate is calculated at most once per
\* instance until clear_cache().
C28_EstimateLast ==
    out.getter = "battery_voltage" =>
        /\ ~out.raised
        /\ out.v.t \in {"float", "none"}
        /\ volt.runs <= 1
        /\ platform = "Windows" =>
              /\ \E n \in 1..Len(VoltageMethods) :
                    /\ DirectRead = { VoltageMethods[i] : i \in 1..n }
                    /\ \A i \in 1..(n - 1) :
                          ~MethodReturns(VoltageMethods[i], out.dir[VoltageMethods[i]])
                    /\ IF MethodReturns(VoltageMethods[n], out.dir[VoltageMethods[n]])
                       THEN ~Estimated /\ out.v = out.dir[VoltageMethods[n]]
                       ELSE n = Len(VoltageMethods) /\ Estimated
        /\ platform = "Linux" =>
              /\ DirectRead = {"voltage_now"}
              /\ Estimated <=> _read_battery_int(out.dir["voltage_now"]) = NoneV
              /\ ~Estimated => out.v = FloatV(out.dir["voltage_now"].n)

(***************************************************************************)
(* _get_battery_state entered by several threads of one process.  The      *)
(* method holds no lock: between the cache test, the power query (ctypes    *)
(* releases the interpreter lock for the call) and the two assignments     *)
(* that store the answer, other threads run.                               *)
(***************************************************************************)
\* what CallNtPowerInformation gives a thread: a failure or one of two states
StateAnswers ==
    { NoState,
      State(TRUE, TRUE, TRUE, FALSE, 40000, 20000, 12000),
      State(FALSE, TRUE, FALSE, TRUE, 40000, 20000, 8000) }

\* thread t enters _get_battery_state(use_cache): without powrprof it returns
\* None, with a cached state that is recent enough it returns that state,
\* else it goes on to the power query with the time it has read
EnterState(t, use_cache) ==
    /\ platform = "Windows"
    /\ pc = "idle"
    /\ work.th[t].pc = "idle"
    /\ IF ~_power_prof \/ StateCached(use_cache, now, _cached_state, _last_api_call)
       THEN UNCHANGED work
       ELSE work' = [work EXCEPT !.th[t] = [pc |-> "query", use_cache |-> use_cache,
                                            current_time |-> now, state |-> NoState]]
    /\ UNCHANGED << aggVars, srcVars, host, inst, disk, rep, volt >>

\* thread t issues the power query: a failure returns None, a success is kept
\* by the thread until it has stored it
CallApi(t) ==
    /\ work.th[t].pc = "query"
    /\ \E answer \in StateAnswers :
          LET me == work.th[t]
              fresh == work.top >= 0
                       /\ me.current_time - work.top < _CACHE_DURATION_SECONDS
          IN  work' = [th |-> [work.th EXCEPT ![t] =
                                  IF answer.valid
                                  THEN [me EXCEPT !.pc = "store", !.state = answer]
                                  ELSE IdleThread],
                       top |-> IF answer.valid /\ me.current_time > work.top
                               THEN me.current_time ELSE work.top,
                       again |-> work.again \/ (me.use_cache /\ fresh)]
    /\ UNCHANGED << aggVars, srcVars, host, inst, disk, rep, volt >>

\* thread t stores the state and the time it read on entry, and returns
StoreState(t) ==
    /\ work.th[t].pc = "store"
    /\ _cached_state' = work.th[t].state
    /\ _last_api_call' = work.th[t].current_time
    /\ work' = [work EXCEPT !.th[t] = IdleThread]
    /\ UNCHANGED << aggVars, platform, _power_prof, _report_data, out, host, inst, disk,
                    rep, volt >>

\* a Windows Battery whose live state was not read yet
StateInit ==
    /\ platform = "Windows"
    /\ _power_prof \in BOOLEAN
    /\ _report_data = NoReport
    /\ _cached_state = NoState
    /\ _last_api_call = 0
    /\ out = NoOut
    /\ host = NoHost
    /\ inst = Instance("Battery", "unset", << >>)
    /\ disk = NoDisk
    /\ rep = NoRep
    /\ volt = NoVolt
    /\ work = NoWork
    /\ dev_mode = FALSE
    /\ now = 0
    /\ heap = [i \in Ids |-> NoMapping]
    /\ _cached_result = 0
    /\ _last_cache_time = 0
    /\ held = 0
    /\ pc = "idle"
    /\ cur = NoCall
    /\ plan = NoPlan
    /\ fut = NoFut
    /\ data = NoData
    /\ invoked = {}
    /\ ret = NoRet
    /\ captured = NoCapture

StateNext ==
    \/ \E t \in Threads, use_cache \in BOOLEAN : EnterState(t, use_cache)
    \/ \E t \in Threads : CallApi(t)
    \/ \E t \in Threads : StoreState(t)
    \/ Tick

StateSpec == StateInit /\ [][StateNext]_vars

\* C29: within one cache duration (2 s) the power query is issued at most once
\* per instance by calls of _get_battery_state(use_cache=True), also when
\* several worker threads enter it at once with a cold or expired cache; the
\* stored capture time never moves backwards; only use_cache=False bypasses
\* the cache.
C29_OneQueryPerWindow ==
    /\ [](~work.again)
    /\ [][_last_api_call' >= _last_api_call]_vars

\* C30: a mapping returned by get_result(use_cache=False) holds nothing that
\* an earlier call captured: each metric in it is "n/a" or shows what its
\* getter returns in this call.
C30_NoStaleData ==
    (ret.status = "returned" /\ ~ret.use_cache) =>
        \A k \in DOMAIN ret.val \ {"report_generated"} :
            \/ ret.val[k] = "n/a"
            \/ ret.val[k] = FormatField(k, Reading(TaskOf(k), ret.start))

=============================================================================
